---- MODULE Spec2Model ----
(***************************************************************************)
(* A model of the CUPS raster stream decoder of honnef.co/go/cups/raster:  *)
(* NewDecoder, Decoder.NextPage, Page.ReadLine, Page.ReadAll and the       *)
(* header and line decoders they call.  The stream is a finite sequence    *)
(* of bytes (0..255) that is read forward only; io.ReadFull and            *)
(* binary.Read are modelled by what they return on such a stream.          *)
(* 32-bit floats of the header are kept as their 32-bit patterns.          *)
(***************************************************************************)
EXTENDS Integers, Sequences, FiniteSets, TLC

VARIABLES sd, pos, d, pages, call, ret, hist

vars == <<sd, pos, d, pages, call, ret, hist>>

(***************************************************************************)
(* Bounds of the model.                                                    *)
(***************************************************************************)
\* the largest number of pages a generated stream holds
MaxStreamPages == 2

(***************************************************************************)
(* Errors.                                                                 *)
(***************************************************************************)
ErrNil == "nil"
EOF == "io.EOF"
ErrUnexpectedEOF == "io.ErrUnexpectedEOF"
ErrUnknownVersion == "ErrUnknownVersion"
ErrUnsupported == "ErrUnsupported"
ErrBufferTooSmall == "ErrBufferTooSmall"
ErrInvalidFormat == "ErrInvalidFormat"

BigEndian == "BigEndian"
LittleEndian == "LittleEndian"

syncV1BE == <<82, 97, 83, 116>>
syncV1LE == <<116, 83, 97, 82>>
syncV2BE == <<82, 97, 83, 50>>
syncV2LE == <<50, 83, 97, 82>>
syncV3BE == <<82, 97, 83, 51>>
syncV3LE == <<51, 83, 97, 82>>

ChunkyPixels == 0
BandedPixels == 1
PlanarPixels == 2

ColorSpaceBlack == 3
ColorSpaceCMYK == 6

\* width of one header string slot, in bytes
CStringLen == 64

(***************************************************************************)
(* Small helpers on sequences.                                             *)
(***************************************************************************)
Min(a, b) == IF a < b THEN a ELSE b

Zeros(n) == [i \in 1..n |-> 0]

\* the concatenation of the sequences of ss, by halves
Flatten(ss) ==
    LET f[r \in (1..(Len(ss) + 1)) \X (0..Len(ss))] ==
            IF r[1] > r[2] THEN << >>
            ELSE IF r[1] = r[2] THEN ss[r[1]]
            ELSE f[<<r[1], (r[1] + r[2]) \div 2>>]
                 \o f[<<(r[1] + r[2]) \div 2 + 1, r[2]>>]
    IN f[<<1, Len(ss)>>]

\* n copies of s
Repeat(s, n) ==
    [i \in 1..(n * Len(s)) |-> s[((i - 1) % Len(s)) + 1]]

Prefix(s, n) == SubSeq(s, 1, Min(n, Len(s)))

\* F applied to the value of e: names a value that is used more than once
With(e, F(_)) == F(e)

\* Go's builtin copy(dst, src): the first min(len) elements are overwritten
copy(dst, src) ==
    IF Len(src) >= Len(dst) THEN SubSeq(src, 1, Len(dst))
    ELSE src \o SubSeq(dst, Len(src) + 1, Len(dst))

(***************************************************************************)
(* parseMagic                                                              *)
(***************************************************************************)
\* parseMagic with the byte orders of version 3 exchanged
parseMagicSwapped(b) ==
    IF b = syncV1BE THEN [version |-> 1, bo |-> BigEndian, ok |-> TRUE]
    ELSE IF b = syncV2BE THEN [version |-> 2, bo |-> BigEndian, ok |-> TRUE]
    ELSE IF b = syncV3BE THEN [version |-> 3, bo |-> LittleEndian, ok |-> TRUE]
    ELSE IF b = syncV1LE THEN [version |-> 1, bo |-> LittleEndian, ok |-> TRUE]
    ELSE IF b = syncV2LE THEN [version |-> 2, bo |-> LittleEndian, ok |-> TRUE]
    ELSE IF b = syncV3LE THEN [version |-> 3, bo |-> BigEndian, ok |-> TRUE]
    ELSE [version |-> 0, bo |-> "nil", ok |-> FALSE]

parseMagic(b) ==
    IF Len(b) # 4 THEN [version |-> 0, bo |-> "nil", ok |-> FALSE]
    ELSE IF b = syncV1BE THEN [version |-> 1, bo |-> BigEndian, ok |-> TRUE]
    ELSE IF b = syncV2BE THEN [version |-> 2, bo |-> BigEndian, ok |-> TRUE]
    ELSE IF b = syncV3BE THEN [version |-> 3, bo |-> BigEndian, ok |-> TRUE]
    ELSE IF b = syncV1LE THEN [version |-> 1, bo |-> LittleEndian, ok |-> TRUE]
    ELSE IF b = syncV2LE THEN [version |-> 2, bo |-> LittleEndian, ok |-> TRUE]
    ELSE IF b = syncV3LE THEN [version |-> 3, bo |-> LittleEndian, ok |-> TRUE]
    ELSE [version |-> 0, bo |-> "nil", ok |-> FALSE]

(***************************************************************************)
(* The layout of the header.                                               *)
(***************************************************************************)
Range(s) == {s[i] : i \in 1..Len(s)}

IndexOf(s, x) == CHOOSE i \in 1..Len(s) : s[i] = x

V1Strings == <<"MediaClass", "MediaColor", "MediaType", "OutputType">>

V1Scalars ==
    <<"AdvanceDistance", "AdvanceMedia", "Collate", "CutMedia", "Duplex",
      "HorizDPI", "VertDPI", "BoundingBoxLeft", "BoundingBoxBottom",
      "BoundingBoxRight", "BoundingBoxTop", "InsertSheet", "Jog",
      "LeadingEdge", "MarginLeft", "MarginBottom", "ManualFeed",
      "MediaPosition", "MediaWeight", "MirrorPrint", "NegativePrint",
      "NumCopies", "Orientation", "OutputFaceUp", "Width", "Length",
      "Separations", "TraySwitch", "Tumble", "CUPSWidth", "CUPSHeight",
      "CUPSMediaType", "CUPSBitsPerColor", "CUPSBitsPerPixel",
      "CUPSBytesPerLine", "CUPSColorOrder", "CUPSColorSpace",
      "CUPSCompression", "CUPSRowCount", "CUPSRowFeed", "CUPSRowStep">>

BoolFields ==
    {"Collate", "Duplex", "InsertSheet", "ManualFeed", "MirrorPrint",
     "NegativePrint", "OutputFaceUp", "Separations", "TraySwitch", "Tumble"}

\* number of 32-bit words of the version 2 extension block:
\* NumColors, BorderlessScalingFactor, PageSize[2], ImagingBBox[4],
\* Integer[16], Real[16]
V2Words == 40

\* the position of each scalar field in the scalar block
ScalarIndex == [f \in Range(V1Scalars) |-> IndexOf(V1Scalars, f)] @@ << >>

StringIndex == [f \in Range(V1Strings) |-> IndexOf(V1Strings, f)] @@ << >>

V1Names == DOMAIN StringIndex \cup DOMAIN ScalarIndex

\* number of entries of Header.CUPS.String
NumCUPSStrings == 16

\* the zero value of the fields that only versions 2 and 3 carry
V2Zero ==
    [CUPSNumColors |-> 0, CUPSBorderlessScalingFactor |-> 0,
     CUPSPageSize |-> Zeros(2), CUPSImagingBBox |-> Zeros(4),
     CUPSInteger |-> Zeros(16), CUPSReal |-> Zeros(16),
     CUPSString |-> [i \in 1..NumCUPSStrings |-> <<>>],
     CUPSMarkerType |-> <<>>, CUPSRenderingIntent |-> <<>>,
     CUPSPageSizeName |-> <<>>]

(***************************************************************************)
(* The streams the decoder is run on.  A stream is a magic followed by     *)
(* the pages of a list of page types, each encoded as the format           *)
(* prescribes (header, then raw lines for versions 1 and 3 or run-length   *)
(* lines for version 2), and possibly cut short inside its last page.      *)
(* A page type gives the header fields that are not 0 and the plan of the  *)
(* page's lines: a sequence of [rep, pk], one entry per encoded line,      *)
(* with rep the line's repeat count and pk its packets [n, g] (count byte  *)
(* and color groups).                                                      *)
(***************************************************************************)
Map(F(_), s) == [i \in 1..Len(s) |-> F(s[i])]

PutUint32(bo, v) ==
    LET be == <<(v \div 16777216) % 256, (v \div 65536) % 256,
                (v \div 256) % 256, v % 256>>
    IN IF bo = BigEndian THEN be ELSE <<be[4], be[3], be[2], be[1]>>

PutCString(str) == str \o Zeros(CStringLen - Len(str))

PageTypeA ==
    [hdr |-> [CUPSWidth |-> 3, CUPSHeight |-> 3, CUPSBitsPerColor |-> 8,
              CUPSBitsPerPixel |-> 8, CUPSBytesPerLine |-> 3,
              CUPSColorOrder |-> ChunkyPixels,
              CUPSColorSpace |-> ColorSpaceBlack, Duplex |-> 1,
              HorizDPI |-> 600],
     str |-> [MediaClass |-> <<80, 119, 103>>],
     plan |-> << [rep |-> 1, pk |-> << [n |-> 0, g |-> << <<11>> >>],
                                      [n |-> 255, g |-> << <<12>>, <<13>> >>] >>],
                 [rep |-> 0, pk |-> << [n |-> 2, g |-> << <<21>> >>] >>] >>]

PageTypeB ==
    [hdr |-> [CUPSWidth |-> 1, CUPSHeight |-> 2, CUPSBitsPerColor |-> 8,
              CUPSBitsPerPixel |-> 32, CUPSBytesPerLine |-> 4,
              CUPSColorOrder |-> ChunkyPixels,
              CUPSColorSpace |-> ColorSpaceCMYK, Tumble |-> 1],
     str |-> [MediaType |-> <<65>>],
     plan |-> << [rep |-> 1,
                  pk |-> << [n |-> 0, g |-> << <<31, 32, 33, 34>> >>] >>] >>]

\* a page without lines
PageTypeZ ==
    [hdr |-> [CUPSWidth |-> 2, CUPSHeight |-> 0, CUPSBitsPerColor |-> 8,
              CUPSBitsPerPixel |-> 8, CUPSBytesPerLine |-> 2,
              CUPSColorOrder |-> ChunkyPixels,
              CUPSColorSpace |-> ColorSpaceBlack],
     str |-> [MediaColor |-> <<67>>],
     plan |-> << >>]

\* a 1-bit black page of 2 lines of 5 pixels, one byte a line: the last 3
\* bits of each byte stand for no pixel
PageTypeM ==
    [hdr |-> [CUPSWidth |-> 5, CUPSHeight |-> 2, CUPSBitsPerColor |-> 1,
              CUPSBitsPerPixel |-> 1, CUPSBytesPerLine |-> 1,
              CUPSColorOrder |-> ChunkyPixels,
              CUPSColorSpace |-> ColorSpaceBlack],
     str |-> [OutputType |-> <<77>>],
     plan |-> << [rep |-> 0, pk |-> << [n |-> 0, g |-> << <<88>> >>] >>],
                 [rep |-> 0, pk |-> << [n |-> 0, g |-> << <<37>> >>] >>] >>]

\* a 1-bit CMYK page, which ParseColors and Image do not support
PageTypeU ==
    [hdr |-> [CUPSWidth |-> 2, CUPSHeight |-> 1, CUPSBitsPerColor |-> 1,
              CUPSBitsPerPixel |-> 4, CUPSBytesPerLine |-> 1,
              CUPSColorOrder |-> ChunkyPixels,
              CUPSColorSpace |-> ColorSpaceCMYK],
     str |-> [OutputType |-> <<85>>],
     plan |-> << [rep |-> 0, pk |-> << [n |-> 0, g |-> << <<45>> >>] >>] >>]

\* a chunky page of 12-bit pixels (2-byte color groups) whose header sets
\* the compression field: its lines use repeated and literal packets of
\* every size that fits a line of 3 groups
PageTypeP ==
    [hdr |-> [CUPSWidth |-> 3, CUPSHeight |-> 4, CUPSBitsPerColor |-> 4,
              CUPSBitsPerPixel |-> 12, CUPSBytesPerLine |-> 6,
              CUPSColorOrder |-> ChunkyPixels,
              CUPSColorSpace |-> ColorSpaceBlack, CUPSCompression |-> 1],
     str |-> [MediaClass |-> <<80>>],
     plan |-> << [rep |-> 1,
                  pk |-> << [n |-> 0, g |-> << <<1, 2>> >>],
                            [n |-> 255, g |-> << <<3, 4>>, <<5, 6>> >>] >>],
                 [rep |-> 0,
                  pk |-> << [n |-> 254,
                             g |-> << <<7, 8>>, <<9, 10>>, <<11, 12>> >>] >>],
                 [rep |-> 0,
                  pk |-> << [n |-> 2, g |-> << <<13, 14>> >>] >>] >>]

\* a banded page of 12-bit colors (2-byte color groups): one line, coded as the longest repeated
\* packet (128 groups)
PageTypeN ==
    [hdr |-> [CUPSWidth |-> 42, CUPSHeight |-> 1, CUPSBitsPerColor |-> 12,
              CUPSBitsPerPixel |-> 36, CUPSBytesPerLine |-> 256,
              CUPSColorOrder |-> BandedPixels,
              CUPSColorSpace |-> ColorSpaceCMYK],
     str |-> [MediaClass |-> <<78>>],
     plan |-> << [rep |-> 0,
                  pk |-> << [n |-> 127, g |-> << <<5, 6>> >>] >>] >>]

\* a planar page of version 2 whose first line ends with a packet that
\* runs 2 bytes past the end of the line
PageTypeO ==
    [hdr |-> [CUPSWidth |-> 3, CUPSHeight |-> 2, CUPSBitsPerColor |-> 8,
              CUPSBitsPerPixel |-> 24, CUPSBytesPerLine |-> 3,
              CUPSColorOrder |-> PlanarPixels,
              CUPSColorSpace |-> ColorSpaceCMYK],
     str |-> [MediaClass |-> <<79>>],
     plan |-> << [rep |-> 0,
                  pk |-> << [n |-> 1, g |-> << <<41>> >>],
                            [n |-> 2, g |-> << <<42>> >>] >>],
                 [rep |-> 0,
                  pk |-> << [n |-> 2, g |-> << <<43>> >>] >>] >>]

\* a page whose header names a color order that does not exist
PageTypeX ==
    [hdr |-> [CUPSWidth |-> 1, CUPSHeight |-> 0, CUPSBitsPerColor |-> 8,
              CUPSBitsPerPixel |-> 8, CUPSBytesPerLine |-> 1,
              CUPSColorOrder |-> 3, CUPSColorSpace |-> ColorSpaceBlack],
     str |-> [MediaClass |-> <<88>>],
     plan |-> << >>]

\* a 1-bit black page of 2 lines of 10 pixels, 2 bytes a line
PageTypeW ==
    [hdr |-> [CUPSWidth |-> 10, CUPSHeight |-> 2, CUPSBitsPerColor |-> 1,
              CUPSBitsPerPixel |-> 1, CUPSBytesPerLine |-> 2,
              CUPSColorOrder |-> ChunkyPixels,
              CUPSColorSpace |-> ColorSpaceBlack],
     str |-> [MediaClass |-> <<87>>],
     plan |-> << [rep |-> 0,
                  pk |-> << [n |-> 255, g |-> << <<90>>, <<64>> >>] >>],
                 [rep |-> 0,
                  pk |-> << [n |-> 255, g |-> << <<37>>, <<127>> >>] >>] >>]

\* an 8-bit black page of 2 lines of 3 pixels, each line followed by a
\* byte that stands for no pixel
PageTypeG ==
    [hdr |-> [CUPSWidth |-> 3, CUPSHeight |-> 2, CUPSBitsPerColor |-> 8,
              CUPSBitsPerPixel |-> 8, CUPSBytesPerLine |-> 4,
              CUPSColorOrder |-> ChunkyPixels,
              CUPSColorSpace |-> ColorSpaceBlack],
     str |-> [MediaClass |-> <<71>>],
     plan |-> << [rep |-> 0,
                  pk |-> << [n |-> 0, g |-> << <<10>> >>],
                            [n |-> 254,
                             g |-> << <<20>>, <<30>>, <<40>> >>] >>],
                 [rep |-> 0,
                  pk |-> << [n |-> 3, g |-> << <<50>> >>] >>] >>]

\* an 8-bit CMYK page of 2 lines of 2 pixels
PageTypeK ==
    [hdr |-> [CUPSWidth |-> 2, CUPSHeight |-> 2, CUPSBitsPerColor |-> 8,
              CUPSBitsPerPixel |-> 32, CUPSBytesPerLine |-> 8,
              CUPSColorOrder |-> ChunkyPixels,
              CUPSColorSpace |-> ColorSpaceCMYK],
     str |-> [MediaClass |-> <<75>>],
     plan |-> << [rep |-> 0,
                  pk |-> << [n |-> 255,
                             g |-> << <<1, 2, 3, 4>>,
                                      <<5, 6, 7, 8>> >>] >>],
                 [rep |-> 0,
                  pk |-> << [n |-> 1, g |-> << <<9, 10, 11, 12>> >>] >>] >>]

\* a chunky page of version 2 whose header gives 0 bits a pixel, so that
\* its color group is 0 bytes wide: every packet of its data is a count
\* byte alone
PageTypeE ==
    [hdr |-> [CUPSWidth |-> 3, CUPSHeight |-> 2, CUPSBitsPerColor |-> 0,
              CUPSBitsPerPixel |-> 0, CUPSBytesPerLine |-> 3,
              CUPSColorOrder |-> ChunkyPixels,
              CUPSColorSpace |-> ColorSpaceBlack],
     str |-> [MediaClass |-> <<69>>],
     plan |-> << [rep |-> 0,
                  pk |-> << [n |-> 2, g |-> << <<>> >>],
                            [n |-> 255, g |-> << <<>>, <<>> >>],
                            [n |-> 253, g |-> << <<>>, <<>>, <<>>, <<>> >>] >>],
                 [rep |-> 0,
                  pk |-> << [n |-> 7, g |-> << <<>> >>] >>] >>]

\* a page of version 2 whose header gives 0 bytes a line: each of its 2
\* lines is its repeat byte alone
PageTypeF ==
    [hdr |-> [CUPSWidth |-> 0, CUPSHeight |-> 2, CUPSBitsPerColor |-> 8,
              CUPSBitsPerPixel |-> 8, CUPSBytesPerLine |-> 0,
              CUPSColorOrder |-> ChunkyPixels,
              CUPSColorSpace |-> ColorSpaceBlack],
     str |-> [MediaClass |-> <<70>>],
     plan |-> << [rep |-> 0, pk |-> << >>], [rep |-> 0, pk |-> << >>] >>]

PageTypeNames == {"A", "B", "Z"}

\* the page types of the streams the color operations are applied to
ColorPageNames == {"A", "B", "M", "U"}

\* the page types of the streams the line decoders are compared on: "O"
\* exists in run-length coded streams only
LinePageNames == {"P", "N", "O", "X"}

\* the page types of the streams images are made of: a page of each
\* combination of color space and depth Image supports, with and without
\* bytes at the end of a line that stand for no pixel
ImagePageNames == {"A", "B", "M", "W", "G", "K"}

\* the page types of the streams the packet loop is stepped on
PacketPageNames == {"P", "E", "F"}

\* their magics: version 2 in both byte orders
PacketMagics == {3, 4}

PageType(name) ==
    CASE name = "A" -> PageTypeA
      [] name = "B" -> PageTypeB
      [] name = "Z" -> PageTypeZ
      [] name = "M" -> PageTypeM
      [] name = "U" -> PageTypeU
      [] name = "P" -> PageTypeP
      [] name = "N" -> PageTypeN
      [] name = "O" -> PageTypeO
      [] name = "X" -> PageTypeX
      [] name = "W" -> PageTypeW
      [] name = "G" -> PageTypeG
      [] name = "K" -> PageTypeK
      [] name = "E" -> PageTypeE
      [] name = "F" -> PageTypeF

HdrVal(pt, f) == IF f \in DOMAIN pt.hdr THEN pt.hdr[f] ELSE 0

HdrStr(pt, f) == IF f \in DOMAIN pt.str THEN pt.str[f] ELSE <<>>

\* the words and strings the generated version 2/3 extension carries
ExtWord(i) == 50 + i

ExtString(i) == <<96 + i>>

HeaderBytes(ver, bo, pt) ==
    LET strs(f) == PutCString(HdrStr(pt, f))
        num(f) == PutUint32(bo, HdrVal(pt, f))
        v1 == Flatten(Map(strs, V1Strings)) \o Flatten(Map(num, V1Scalars))
        ext == Flatten([i \in 1..V2Words |-> PutUint32(bo, ExtWord(i))])
               \o Flatten([i \in 1..(NumCUPSStrings + 3) |->
                              PutCString(ExtString(i))])
    IN IF ver = 1 THEN v1 ELSE v1 \o ext

\* the header NextPage is to return for a page of type pt
ExpHeader(ver, pt) ==
    LET v1 == [f \in V1Names |->
                 IF f \in DOMAIN StringIndex THEN HdrStr(pt, f)
                 ELSE IF f \in BoolFields THEN HdrVal(pt, f) = 1
                 ELSE HdrVal(pt, f)]
        ext == [CUPSNumColors |-> ExtWord(1),
                CUPSBorderlessScalingFactor |-> ExtWord(2),
                CUPSPageSize |-> [i \in 1..2 |-> ExtWord(2 + i)],
                CUPSImagingBBox |-> [i \in 1..4 |-> ExtWord(4 + i)],
                CUPSInteger |-> [i \in 1..16 |-> ExtWord(8 + i)],
                CUPSReal |-> [i \in 1..16 |-> ExtWord(24 + i)],
                CUPSString |-> [i \in 1..NumCUPSStrings |-> ExtString(i)],
                CUPSMarkerType |-> ExtString(NumCUPSStrings + 1),
                CUPSRenderingIntent |-> ExtString(NumCUPSStrings + 2),
                CUPSPageSizeName |-> ExtString(NumCUPSStrings + 3)]
    IN IF ver = 1 THEN v1 @@ V2Zero ELSE ext @@ v1

ExpandPacket(pk) ==
    IF pk.n <= 127 THEN Repeat(pk.g[1], pk.n + 1) ELSE Flatten(pk.g)

PutPacket(pk) == <<pk.n>> \o Flatten(pk.g)

PlanLine(l) == Flatten(Map(ExpandPacket, l.pk))

PutLineV2(l) == <<l.rep>> \o Flatten(Map(PutPacket, l.pk))

\* the lines of a page of type pt, in order
LinesOfPlan(l) == [i \in 1..(1 + l.rep) |-> PlanLine(l)]

ExpLines(pt) == Flatten(Map(LinesOfPlan, pt.plan))

DataBytes(ver, pt) ==
    IF ver = 2 THEN Flatten(Map(PutLineV2, pt.plan))
    ELSE Flatten(ExpLines(pt))

HeaderLen(ver) ==
    IF ver = 1 THEN 4 * CStringLen + 4 * Len(V1Scalars)
    ELSE 4 * CStringLen + 4 * Len(V1Scalars) + 4 * V2Words
         + (NumCUPSStrings + 3) * CStringLen

PageBytes(ver, bo, pt) == HeaderBytes(ver, bo, pt) \o DataBytes(ver, pt)

Magics ==
    << [bytes |-> syncV1BE, ver |-> 1, bo |-> BigEndian],
       [bytes |-> syncV1LE, ver |-> 1, bo |-> LittleEndian],
       [bytes |-> syncV2BE, ver |-> 2, bo |-> BigEndian],
       [bytes |-> syncV2LE, ver |-> 2, bo |-> LittleEndian],
       [bytes |-> syncV3BE, ver |-> 3, bo |-> BigEndian],
       [bytes |-> syncV3LE, ver |-> 3, bo |-> LittleEndian] >>

\* streams that do not start with a magic: other 4-byte prefixes (followed
\* by more bytes) and streams shorter than 4 bytes
BadPrefixes ==
    { <<82, 97, 83, 52, 0, 0>>, <<52, 83, 97, 82>>, <<116, 83, 97, 83, 1>>,
      <<82, 97, 83>>, <<50>>, << >> }

\* the lists of page types (by name) a stream is generated from
PageLists ==
    UNION { { l \in [1..k -> PageTypeNames] :
                \A i \in 1..(k - 1) : l[i] # l[i + 1] } :
            k \in 0..MaxStreamPages }

\* the magics and the lists of page types of the streams the color
\* operations are applied to: one for the run-length coded lines of version 2 and one for raw lines
ColorMagics == {4, 5}

ColorPageLists ==
    UNION { { l \in [1..k -> ColorPageNames] :
                \A i \in 1..(k - 1) : l[i] # l[i + 1] } :
            k \in 1..MaxStreamPages }

\* the magics and the lists of page types of the streams the line decoders
\* are compared on: one magic of each version, and the page with the
\* unknown color order in the last place only
LineMagics == {2, 3, 5}

LinePageLists ==
    UNION { { l \in [1..k -> LinePageNames] :
                /\ \A i \in 1..(k - 1) : l[i] # l[i + 1] /\ l[i] # "X" } :
            k \in 1..MaxStreamPages }

PageTable ==
    [k \in (1..Len(Magics))
            \X (PageTypeNames \cup ColorPageNames \cup LinePageNames
                \cup ImagePageNames \cup PacketPageNames) |->
        PageBytes(Magics[k[1]].ver, Magics[k[1]].bo, PageType(k[2]))] @@ << >>

\* the uncut streams, by magic and list of page types
FullTable ==
    [k \in ((1..Len(Magics)) \X PageLists)
            \cup (ColorMagics \X ColorPageLists)
            \cup (LineMagics \X LinePageLists)
            \cup (ColorMagics \X { <<name>> : name \in ImagePageNames })
            \cup (PacketMagics
                  \X { <<name>> : name \in PacketPageNames }) |->
        Magics[k[1]].bytes
        \o Flatten([i \in 1..Len(k[2]) |-> PageTable[<<k[1], k[2][i]>>]])]
    @@ << >>

DataLen(ver, name) == Len(DataBytes(ver, PageType(name)))

\* where a stream is cut, counted from the start of its last page
CutOffsets(ver, name) ==
    {1, 64, 256, 300}
    \cup (IF ver = 1 THEN {} ELSE {420, 580, 1795})
    \cup {HeaderLen(ver) + i : i \in 0..(DataLen(ver, name) - 1)}

PageStart(ver, pts, i) ==
    LET f[j \in 1..i] ==
            IF j = 1 THEN 4
            ELSE f[j - 1] + HeaderLen(ver) + DataLen(ver, pts[j - 1])
    IN f[i]

\* A stream descriptor: the stream is the first len bytes of the uncut
\* stream of magic mi and page types pts (or the bytes raw, for a stream
\* without magic).  hs, ds and de are the offsets at which each page's
\* header starts, its data starts and its data ends in the uncut stream.
GoodStream(mi, pts, cut) ==
    LET ver == Magics[mi].ver
        hs == [i \in 1..Len(pts) |-> PageStart(ver, pts, i)]
        de == [i \in 1..Len(pts) |->
                  hs[i] + HeaderLen(ver) + DataLen(ver, pts[i])]
    IN [valid |-> TRUE, mi |-> mi, pts |-> pts, raw |-> << >>,
        ver |-> ver, bo |-> Magics[mi].bo, cut |-> cut >= 0,
        len |-> IF cut >= 0 THEN hs[Len(pts)] + cut
                ELSE IF pts = << >> THEN 4 ELSE de[Len(pts)],
        hs |-> hs, ds |-> [i \in 1..Len(pts) |-> hs[i] + HeaderLen(ver)],
        de |-> de]

BadStream(b) ==
    [valid |-> FALSE, mi |-> 0, pts |-> << >>, raw |-> b, ver |-> 0,
     bo |-> "nil", cut |-> FALSE, len |-> Len(b), hs |-> << >>,
     ds |-> << >>, de |-> << >>]

Streams ==
    { GoodStream(mi, pts, -1) : mi \in 1..Len(Magics), pts \in PageLists }
    \cup UNION { { GoodStream(mi, pts, c) :
                     c \in CutOffsets(Magics[mi].ver, pts[Len(pts)]) } :
                 mi \in 1..Len(Magics), pts \in PageLists \ { << >> } }
    \cup { BadStream(b) : b \in BadPrefixes }

\* the streams the color operations are applied to: whole ones, and
\* streams of one page cut in its data
ColorStreams ==
    { GoodStream(mi, pts, -1) : mi \in ColorMagics, pts \in ColorPageLists }
    \cup UNION { { GoodStream(mi, <<name>>, HeaderLen(Magics[mi].ver) + i) :
                     i \in 0..(DataLen(Magics[mi].ver, name) - 1) } :
                 mi \in ColorMagics, name \in ColorPageNames }

\* the streams the line decoders are compared on: whole ones, and streams
\* of one page of type "P" or "O" cut in its data
LineStreams ==
    UNION { { GoodStream(mi, pts, -1) :
                pts \in { l \in LinePageLists :
                            \/ Magics[mi].ver = 2
                            \/ \A i \in 1..Len(l) : l[i] # "O" } } :
            mi \in LineMagics }
    \cup UNION { { GoodStream(mi, <<name>>, HeaderLen(Magics[mi].ver) + i) :
                     i \in 0..(DataLen(Magics[mi].ver, name) - 1) } :
                 mi \in LineMagics, name \in {"P"} }
    \cup { GoodStream(3, <<"O">>, HeaderLen(2) + i) :
             i \in 0..(DataLen(2, "O") - 1) }

(***************************************************************************)
(* The reader.  A reader state is [pos, n]: the position in the stream     *)
(* and the byte count of the countingReader wrapped around it.             *)
(***************************************************************************)
\* the bytes of the stream in positions from+1 .. to
StreamBytes(from, to) ==
    SubSeq(IF sd.valid THEN FullTable[<<sd.mi, sd.pts>>] ELSE sd.raw,
           from + 1, to)

StreamLen == sd.len

\* io.ReadFull of a buffer of n bytes at position p of the stream
ReadFull(p, n) ==
    IF n = 0 THEN [n |-> 0, data |-> <<>>, err |-> ErrNil]
    ELSE IF StreamLen - p >= n
         THEN [n |-> n, data |-> StreamBytes(p, p + n), err |-> ErrNil]
    ELSE IF StreamLen - p = 0 THEN [n |-> 0, data |-> <<>>, err |-> EOF]
    ELSE [n |-> StreamLen - p, data |-> StreamBytes(p, StreamLen),
          err |-> ErrUnexpectedEOF]

\* countingReader.Read, as driven by io.ReadFull
countingRead(r, n) ==
    With(ReadFull(r.pos, n), LAMBDA rf :
        [r |-> [pos |-> r.pos + rf.n, n |-> r.n + rf.n],
         data |-> rf.data, err |-> rf.err])

\* binary.ByteOrder.Uint32 of the 4 bytes of b that follow offset o
Uint32(bo, b, o) ==
    IF bo = BigEndian
    THEN b[o + 1] * 16777216 + b[o + 2] * 65536 + b[o + 3] * 256 + b[o + 4]
    ELSE b[o + 4] * 16777216 + b[o + 3] * 65536 + b[o + 2] * 256 + b[o + 1]

(***************************************************************************)
(* Header decoding.  A decode state st is [r, err]: the reader and the     *)
(* decoder's sticky error field d.err.                                     *)
(***************************************************************************)
\* the i-th 32-bit word of data
Word(bo, data, i) == Uint32(bo, data, 4 * (i - 1))

Words(bo, data, from, cnt) == [i \in 1..cnt |-> Word(bo, data, from + i - 1)]

\* cstring that takes a slot without a zero byte for a string of all its
\* bytes
cstringWholeSlot(b) ==
    IF \A i \in 1..Len(b) : b[i] # 0 THEN b
    ELSE SubSeq(b, 1, (CHOOSE i \in 1..Len(b) :
                          b[i] = 0 /\ \A j \in 1..(i - 1) : b[j] # 0) - 1)

cstring(b) ==
    IF \A i \in 1..Len(b) : b[i] # 0 THEN <<>>
    ELSE SubSeq(b, 1, (CHOOSE i \in 1..Len(b) :
                          b[i] = 0 /\ \A j \in 1..(i - 1) : b[j] # 0) - 1)

readCString(st) ==
    IF st.err # ErrNil THEN [st |-> st, v |-> <<>>]
    ELSE With(countingRead(st.r, CStringLen), LAMBDA cr :
            [st |-> [r |-> cr.r, err |-> cr.err],
             v |-> cstring(copy(Zeros(CStringLen), cr.data))])

\* the decode state st after j calls of readCString that found CStringLen
\* bytes each
afterCStrings(st, j) ==
    [r |-> [pos |-> st.r.pos + CStringLen * j, n |-> st.r.n + CStringLen * j],
     err |-> st.err]

\* k calls of readCString in a row: the first m calls find CStringLen bytes
\* each, call m + 1 (if any) sets the error, and the calls after it read
\* nothing
readCStrings(st, k) ==
    With(IF st.err # ErrNil THEN 0
         ELSE Min(k, (StreamLen - st.r.pos) \div CStringLen), LAMBDA m :
    With(IF m < k THEN readCString(afterCStrings(st, m)).st
         ELSE afterCStrings(st, k), LAMBDA last :
        [st |-> last,
         vs |-> [i \in 1..k |->
                   IF i <= m + 1 THEN readCString(afterCStrings(st, i - 1)).v
                   ELSE readCString(last).v]]))

NoHeader == [none |-> TRUE]

\* decodeV1Header that takes every word that is not 0 for true
decodeV1HeaderNonZero(st, bo) ==
    With(readCStrings(st, 4), LAMBDA ss :
    With(countingRead(ss.st.r, 4 * Len(V1Scalars)), LAMBDA rd :
        IF rd.err # ErrNil
        THEN [st |-> [r |-> rd.r, err |-> ss.st.err], h |-> NoHeader,
              err |-> rd.err]
        ELSE [st |-> [r |-> rd.r, err |-> ss.st.err],
              h |-> [f \in V1Names |->
                       IF f \in DOMAIN StringIndex THEN ss.vs[StringIndex[f]]
                       ELSE IF f \in BoolFields
                       THEN Word(bo, rd.data, ScalarIndex[f]) # 0
                       ELSE Word(bo, rd.data, ScalarIndex[f])] @@ V2Zero,
              err |-> ss.st.err]))

decodeV1Header(st, bo) ==
    With(readCStrings(st, 4), LAMBDA ss :
    With(countingRead(ss.st.r, 4 * Len(V1Scalars)), LAMBDA rd :
        IF rd.err # ErrNil
        THEN [st |-> [r |-> rd.r, err |-> ss.st.err], h |-> NoHeader,
              err |-> rd.err]
        ELSE [st |-> [r |-> rd.r, err |-> ss.st.err],
              h |-> [f \in V1Names |->
                       IF f \in DOMAIN StringIndex THEN ss.vs[StringIndex[f]]
                       ELSE IF f \in BoolFields
                       THEN Word(bo, rd.data, ScalarIndex[f]) = 1
                       ELSE Word(bo, rd.data, ScalarIndex[f])] @@ V2Zero,
              err |-> ss.st.err]))

\* decodeV2Header without the three named strings that follow CUPSString
decodeV2HeaderNoNames(st, bo) ==
    With(decodeV1Header(st, bo), LAMBDA v1 :
    IF v1.err # ErrNil THEN [st |-> v1.st, h |-> NoHeader, err |-> v1.err]
    ELSE
    With(countingRead(v1.st.r, 4 * V2Words), LAMBDA rd :
    IF rd.err # ErrNil
    THEN [st |-> [r |-> rd.r, err |-> v1.st.err], h |-> NoHeader,
          err |-> rd.err]
    ELSE
    With(readCStrings([r |-> rd.r, err |-> v1.st.err], NumCUPSStrings),
         LAMBDA ss :
        [st |-> ss.st,
         h |-> [CUPSNumColors |-> Word(bo, rd.data, 1),
                CUPSBorderlessScalingFactor |-> Word(bo, rd.data, 2),
                CUPSPageSize |-> Words(bo, rd.data, 3, 2),
                CUPSImagingBBox |-> Words(bo, rd.data, 5, 4),
                CUPSInteger |-> Words(bo, rd.data, 9, 16),
                CUPSReal |-> Words(bo, rd.data, 25, 16),
                CUPSString |-> ss.vs,
                CUPSMarkerType |-> <<>>,
                CUPSRenderingIntent |-> <<>>,
                CUPSPageSizeName |-> <<>>] @@ v1.h,
         err |-> ss.st.err])))

decodeV2Header(st, bo) ==
    With(decodeV1Header(st, bo), LAMBDA v1 :
    IF v1.err # ErrNil THEN [st |-> v1.st, h |-> NoHeader, err |-> v1.err]
    ELSE
    With(countingRead(v1.st.r, 4 * V2Words), LAMBDA rd :
    IF rd.err # ErrNil
    THEN [st |-> [r |-> rd.r, err |-> v1.st.err], h |-> NoHeader,
          err |-> rd.err]
    ELSE
    With(readCStrings([r |-> rd.r, err |-> v1.st.err], NumCUPSStrings),
         LAMBDA ss :
    With(readCStrings(ss.st, 3), LAMBDA ms :
        [st |-> ms.st,
         h |-> [CUPSNumColors |-> Word(bo, rd.data, 1),
                CUPSBorderlessScalingFactor |-> Word(bo, rd.data, 2),
                CUPSPageSize |-> Words(bo, rd.data, 3, 2),
                CUPSImagingBBox |-> Words(bo, rd.data, 5, 4),
                CUPSInteger |-> Words(bo, rd.data, 9, 16),
                CUPSReal |-> Words(bo, rd.data, 25, 16),
                CUPSString |-> ss.vs,
                CUPSMarkerType |-> ms.vs[1],
                CUPSRenderingIntent |-> ms.vs[2],
                CUPSPageSizeName |-> ms.vs[3]] @@ v1.h,
         err |-> ms.st.err]))))

\* bytesPerColor that takes the bits of a pixel for every color order
bytesPerColorOfPixel(h) ==
    IF h.CUPSColorOrder \in {ChunkyPixels, BandedPixels, PlanarPixels}
    THEN [n |-> (h.CUPSBitsPerPixel + 7) \div 8, err |-> ErrNil]
    ELSE [n |-> 0, err |-> ErrInvalidFormat]

bytesPerColor(h) ==
    IF h.CUPSColorOrder = ChunkyPixels
    THEN [n |-> (h.CUPSBitsPerPixel + 7) \div 8, err |-> ErrNil]
    ELSE IF h.CUPSColorOrder \in {BandedPixels, PlanarPixels}
    THEN [n |-> (h.CUPSBitsPerColor + 7) \div 8, err |-> ErrNil]
    ELSE [n |-> 0, err |-> ErrInvalidFormat]

(***************************************************************************)
(* Pages.  A page is [Header, line, color, lineRep, linesRead]; the line   *)
(* operations take the page p, the reader r, the caller's buffer b and     *)
(* the decoder's version, and return the new page, reader and buffer with  *)
(* the error.                                                              *)
(***************************************************************************)
LineSize(p) == p.Header.CUPSBytesPerLine

Size(p) == p.Header.CUPSHeight * p.Header.CUPSBytesPerLine

UnreadLines(p) == p.Header.CUPSHeight - p.linesRead

\* the deferred function of readV2Line
promoteEOF(err) == IF err = EOF THEN ErrUnexpectedEOF ELSE err

readRawLine(p, r, b) ==
    With(countingRead(r, p.Header.CUPSBytesPerLine), LAMBDA cr :
        [p |-> p, r |-> cr.r, b |-> copy(b, cr.data), err |-> cr.err])

\* the inner loop of the non-repeating branch: k color groups, read one by
\* one into p.color and appended to the line
RECURSIVE readLiterals(_, _)
readLiterals(s, k) ==
    IF k = 0 THEN s
    ELSE With(countingRead(s.r, Len(s.color)), LAMBDA g :
            IF g.err # ErrNil
            THEN [line |-> s.line, color |-> copy(s.color, g.data),
                  r |-> g.r, err |-> g.err]
            ELSE readLiterals([line |-> s.line \o copy(s.color, g.data),
                               color |-> copy(s.color, g.data),
                               r |-> g.r, err |-> ErrNil], k - 1))

\* the repeating branch: one color group, appended cnt times
readRepeated(s, cnt) ==
    With(countingRead(s.r, Len(s.color)), LAMBDA g :
        IF g.err # ErrNil
        THEN [line |-> s.line, color |-> copy(s.color, g.data), r |-> g.r,
              err |-> g.err]
        ELSE [line |-> s.line \o Repeat(copy(s.color, g.data), cnt),
              color |-> copy(s.color, g.data), r |-> g.r, err |-> ErrNil])

\* the packet loop with a literal packet of count byte n taken for 256 - n
\* groups
RECURSIVE readPacketsShortLiteral(_, _)
readPacketsShortLiteral(s, bpl) ==
    IF Len(s.line) >= bpl THEN s
    ELSE With(countingRead(s.r, 1), LAMBDA c :
         IF c.err # ErrNil THEN [s EXCEPT !.r = c.r, !.err = c.err]
         ELSE With(IF c.data[1] <= 127
                   THEN readRepeated([s EXCEPT !.r = c.r],
                                     (c.data[1] + 1) % 256)
                   ELSE readLiterals([s EXCEPT !.r = c.r], 256 - c.data[1]),
                   LAMBDA pk :
                       IF pk.err # ErrNil THEN pk
                       ELSE readPacketsShortLiteral(pk, bpl)))

\* the packet loop of readV2Line
RECURSIVE readPackets(_, _)
readPackets(s, bpl) ==
    IF Len(s.line) >= bpl THEN s
    ELSE With(countingRead(s.r, 1), LAMBDA c :
         IF c.err # ErrNil THEN [s EXCEPT !.r = c.r, !.err = c.err]
         ELSE With(IF c.data[1] <= 127
                   THEN readRepeated([s EXCEPT !.r = c.r],
                                     (c.data[1] + 1) % 256)
                   ELSE readLiterals([s EXCEPT !.r = c.r], 257 - c.data[1]),
                   LAMBDA pk :
                       IF pk.err # ErrNil THEN pk ELSE readPackets(pk, bpl)))

\* one iteration of the packet loop with the count byte looked at and left
\* in the stream
readPacketPeek(s) ==
    With(countingRead(s.r, 1), LAMBDA c :
        IF c.err # ErrNil THEN [s EXCEPT !.r = c.r, !.err = c.err]
        ELSE IF c.data[1] <= 127
        THEN readRepeated(s, (c.data[1] + 1) % 256)
        ELSE readLiterals(s, 257 - c.data[1]))

\* one iteration of the packet loop of readV2Line: the count byte and the
\* packet it announces
readPacket(s) ==
    With(countingRead(s.r, 1), LAMBDA c :
        IF c.err # ErrNil THEN [s EXCEPT !.r = c.r, !.err = c.err]
        ELSE IF c.data[1] <= 127
        THEN readRepeated([s EXCEPT !.r = c.r], (c.data[1] + 1) % 256)
        ELSE readLiterals([s EXCEPT !.r = c.r], 257 - c.data[1]))

\* readV2Line without the copy of the cached line into the buffer
readV2LineNoCopy(p, r, b) ==
    IF p.lineRep > 0
    THEN [p |-> [p EXCEPT !.lineRep = p.lineRep - 1], r |-> r, b |-> b,
          err |-> ErrNil]
    ELSE With(countingRead(r, 1), LAMBDA c :
         IF c.err # ErrNil
         THEN [p |-> p, r |-> c.r, b |-> b, err |-> promoteEOF(c.err)]
         ELSE With(readPackets([line |-> <<>>, color |-> p.color,
                                r |-> c.r, err |-> ErrNil],
                               p.Header.CUPSBytesPerLine), LAMBDA lp :
              [p |-> [p EXCEPT !.line = lp.line, !.color = lp.color,
                               !.lineRep = c.data[1]],
               r |-> lp.r,
               b |-> IF lp.err # ErrNil THEN b ELSE copy(b, lp.line),
               err |-> promoteEOF(lp.err)]))

\* readV2Line that takes the replay branch also when no repeat is pending
readV2LineReplayAtZero(p, r, b) ==
    IF p.lineRep >= 0
    THEN [p |-> [p EXCEPT !.lineRep = p.lineRep - 1], r |-> r,
          b |-> copy(b, p.line), err |-> ErrNil]
    ELSE With(countingRead(r, 1), LAMBDA c :
         IF c.err # ErrNil
         THEN [p |-> p, r |-> c.r, b |-> b, err |-> promoteEOF(c.err)]
         ELSE With(readPackets([line |-> <<>>, color |-> p.color,
                                r |-> c.r, err |-> ErrNil],
                               p.Header.CUPSBytesPerLine), LAMBDA lp :
              [p |-> [p EXCEPT !.line = lp.line, !.color = lp.color,
                               !.lineRep = c.data[1]],
               r |-> lp.r,
               b |-> IF lp.err # ErrNil THEN b ELSE copy(b, lp.line),
               err |-> promoteEOF(lp.err)]))

readV2Line(p, r, b) ==
    IF p.lineRep > 0
    THEN [p |-> [p EXCEPT !.lineRep = p.lineRep - 1], r |-> r,
          b |-> copy(b, p.line), err |-> ErrNil]
    ELSE With(countingRead(r, 1), LAMBDA c :
         IF c.err # ErrNil
         THEN [p |-> p, r |-> c.r, b |-> b, err |-> promoteEOF(c.err)]
         ELSE With(readPackets([line |-> <<>>, color |-> p.color,
                                r |-> c.r, err |-> ErrNil],
                               p.Header.CUPSBytesPerLine), LAMBDA lp :
              [p |-> [p EXCEPT !.line = lp.line, !.color = lp.color,
                               !.lineRep = c.data[1]],
               r |-> lp.r,
               b |-> IF lp.err # ErrNil THEN b ELSE copy(b, lp.line),
               err |-> promoteEOF(lp.err)]))

\* ReadLine with the buffer check made after the line is counted
ReadLineCheckLate(p, r, b, version) ==
    IF UnreadLines(p) = 0
    THEN [p |-> p, r |-> r, b |-> b, err |-> EOF]
    ELSE IF Len(b) < p.Header.CUPSBytesPerLine
    THEN [p |-> [p EXCEPT !.linesRead = p.linesRead + 1], r |-> r, b |-> b,
          err |-> ErrBufferTooSmall]
    ELSE IF version = 2
    THEN readV2Line([p EXCEPT !.linesRead = p.linesRead + 1], r, b)
    ELSE readRawLine([p EXCEPT !.linesRead = p.linesRead + 1], r, b)

\* ReadLine that counts the line before it looks for unread lines
ReadLineCountFirst(p, r, b, version) ==
    IF Len(b) < p.Header.CUPSBytesPerLine
    THEN [p |-> p, r |-> r, b |-> b, err |-> ErrBufferTooSmall]
    ELSE IF UnreadLines(p) = 0
    THEN [p |-> [p EXCEPT !.linesRead = p.linesRead + 1], r |-> r, b |-> b,
          err |-> EOF]
    ELSE IF version = 2
    THEN readV2Line([p EXCEPT !.linesRead = p.linesRead + 1], r, b)
    ELSE readRawLine([p EXCEPT !.linesRead = p.linesRead + 1], r, b)

\* ReadLine that decodes run-length lines where the header's compression
\* field is set, and raw lines elsewhere
ReadLineByCompression(p, r, b, version) ==
    IF Len(b) < p.Header.CUPSBytesPerLine
    THEN [p |-> p, r |-> r, b |-> b, err |-> ErrBufferTooSmall]
    ELSE IF UnreadLines(p) = 0
    THEN [p |-> p, r |-> r, b |-> b, err |-> EOF]
    ELSE IF p.Header.CUPSCompression # 0
    THEN readV2Line([p EXCEPT !.linesRead = p.linesRead + 1], r, b)
    ELSE readRawLine([p EXCEPT !.linesRead = p.linesRead + 1], r, b)

ReadLine(p, r, b, version) ==
    IF Len(b) < p.Header.CUPSBytesPerLine
    THEN [p |-> p, r |-> r, b |-> b, err |-> ErrBufferTooSmall]
    ELSE IF UnreadLines(p) = 0
    THEN [p |-> p, r |-> r, b |-> b, err |-> EOF]
    ELSE IF version = 2
    THEN readV2Line([p EXCEPT !.linesRead = p.linesRead + 1], r, b)
    ELSE readRawLine([p EXCEPT !.linesRead = p.linesRead + 1], r, b)

\* Splice that puts every part at the start of b
SpliceAtStart(b, start, part) == part \o SubSeq(b, Len(part) + 1, Len(b))

\* b with the elements start+1 .. start+Len(part) replaced by part
Splice(b, start, part) ==
    SubSeq(b, 1, start) \o part \o SubSeq(b, start + Len(part) + 1, Len(b))

\* the loop of ReadAll, from iteration i on
RECURSIVE readAllLoop(_, _, _, _, _, _)
readAllLoop(p, r, b, version, i, n) ==
    IF i >= n THEN [p |-> p, r |-> r, b |-> b, err |-> ErrNil]
    ELSE With(ReadLine(p, r,
                       SubSeq(b, i * p.Header.CUPSBytesPerLine + 1,
                              (i + 1) * p.Header.CUPSBytesPerLine),
                       version), LAMBDA rl :
         With(Splice(b, i * p.Header.CUPSBytesPerLine, rl.b), LAMBDA b2 :
            IF rl.err = EOF
            THEN [p |-> rl.p, r |-> rl.r, b |-> b2, err |-> ErrUnexpectedEOF]
            ELSE IF rl.err # ErrNil
            THEN [p |-> rl.p, r |-> rl.r, b |-> b2, err |-> rl.err]
            ELSE readAllLoop(rl.p, rl.r, b2, version, i + 1, n)))

ReadAll(p, r, b, version) ==
    IF Len(b) < Size(p)
    THEN [p |-> p, r |-> r, b |-> b, err |-> ErrBufferTooSmall]
    ELSE IF UnreadLines(p) = 0
    THEN [p |-> p, r |-> r, b |-> b, err |-> EOF]
    ELSE readAllLoop(p, r, b, version, 0, UnreadLines(p))

\* the loop of discard, with k iterations left
RECURSIVE discardLoop(_, _, _, _, _)
discardLoop(p, r, b, version, k) ==
    IF k <= 0 THEN [p |-> p, r |-> r, err |-> ErrNil]
    ELSE With(ReadLine(p, r, b, version), LAMBDA rl :
         IF rl.err # ErrNil
         THEN [p |-> rl.p, r |-> rl.r,
               err |-> IF rl.err = EOF THEN ErrUnexpectedEOF ELSE rl.err]
         ELSE discardLoop(rl.p, rl.r, rl.b, version, k - 1))

\* discard with one ReadLine per line of the page, read or unread
discardAllLines(p, r, version) ==
    discardLoop(p, r, Zeros(LineSize(p)), version, p.Header.CUPSHeight)

discard(p, r, version) ==
    discardLoop(p, r, Zeros(LineSize(p)), version, UnreadLines(p))

(***************************************************************************)
(* Colors.  A color is [Y] (color.Gray) or [C, M, Y, K] (color.CMYK).      *)
(* ParseColors returns the colors with the error; << >> stands for a nil   *)
(* slice.                                                                  *)
(***************************************************************************)
ColorSpaceGray == 0

ColorSpaceRGB == 1

Gray(y) == [Y |-> y]

CMYK(c, m, y, k) == [C |-> c, M |-> m, Y |-> y, K |-> k]

\* the colors of the 8 bits of a byte: bit i is tested by packet<<i&128 on
\* a byte, that is on the low 8 bits of the shifted value
BitColors(packet) ==
    [j \in 1..8 |->
        IF ((packet * 2 ^ (j - 1)) % 256) \div 128 = 0 THEN Gray(255)
        ELSE Gray(0)]

\* parseColorsBlack that takes the bits of a byte least-significant first
parseColorsBlackLSBFirst(p, b) ==
    IF p.Header.CUPSBitsPerColor = 1
    THEN [colors |-> Flatten([k \in 1..Len(b) |->
                                 [j \in 1..8 |-> BitColors(b[k])[9 - j]]]),
          err |-> ErrNil]
    ELSE IF p.Header.CUPSBitsPerColor = 8
    THEN [colors |-> [k \in 1..Len(b) |-> Gray(255 - b[k])], err |-> ErrNil]
    ELSE [colors |-> << >>, err |-> ErrUnsupported]

\* parseColorsBlack that returns the stored byte of an 8-bit pixel as its
\* gray
parseColorsBlackStored(p, b) ==
    IF p.Header.CUPSBitsPerColor = 1
    THEN [colors |-> Flatten([k \in 1..Len(b) |-> BitColors(b[k])]),
          err |-> ErrNil]
    ELSE IF p.Header.CUPSBitsPerColor = 8
    THEN [colors |-> [k \in 1..Len(b) |-> Gray(b[k])], err |-> ErrNil]
    ELSE [colors |-> << >>, err |-> ErrUnsupported]

parseColorsBlack(p, b) ==
    IF p.Header.CUPSBitsPerColor = 1
    THEN [colors |-> Flatten([k \in 1..Len(b) |-> BitColors(b[k])]),
          err |-> ErrNil]
    ELSE IF p.Header.CUPSBitsPerColor = 8
    THEN [colors |-> [k \in 1..Len(b) |-> Gray(255 - b[k])], err |-> ErrNil]
    ELSE [colors |-> << >>, err |-> ErrUnsupported]

\* parseColorsCMYK that accepts every length and drops an incomplete pixel
parseColorsCMYKAnyLength(p, b) ==
    IF p.Header.CUPSBitsPerColor # 8
    THEN [colors |-> << >>, err |-> ErrUnsupported]
    ELSE [colors |-> [k \in 1..(Len(b) \div 4) |->
                         CMYK(b[4 * k - 3], b[4 * k - 2], b[4 * k - 1],
                              b[4 * k])],
          err |-> ErrNil]

parseColorsCMYK(p, b) ==
    IF p.Header.CUPSBitsPerColor # 8
    THEN [colors |-> << >>, err |-> ErrUnsupported]
    ELSE IF Len(b) % 4 # 0 \/ Len(b) < 4
    THEN [colors |-> << >>, err |-> ErrInvalidFormat]
    ELSE [colors |-> [k \in 1..(Len(b) \div 4) |->
                         CMYK(b[4 * k - 3], b[4 * k - 2], b[4 * k - 1],
                              b[4 * k])],
          err |-> ErrNil]

\* ParseColors that looks at the length of a CMYK input before the depth
ParseColorsLengthFirst(p, b) ==
    IF p.Header.CUPSColorOrder # ChunkyPixels
    THEN [colors |-> << >>, err |-> ErrUnsupported]
    ELSE IF p.Header.CUPSColorSpace = ColorSpaceBlack
    THEN parseColorsBlack(p, b)
    ELSE IF p.Header.CUPSColorSpace = ColorSpaceCMYK
    THEN IF Len(b) % 4 # 0 \/ Len(b) < 4
         THEN [colors |-> << >>, err |-> ErrInvalidFormat]
         ELSE parseColorsCMYK(p, b)
    ELSE [colors |-> << >>, err |-> ErrUnsupported]

ParseColors(p, b) ==
    IF p.Header.CUPSColorOrder # ChunkyPixels
    THEN [colors |-> << >>, err |-> ErrUnsupported]
    ELSE IF p.Header.CUPSColorSpace = ColorSpaceBlack
    THEN parseColorsBlack(p, b)
    ELSE IF p.Header.CUPSColorSpace = ColorSpaceCMYK
    THEN parseColorsCMYK(p, b)
    ELSE [colors |-> << >>, err |-> ErrUnsupported]

\* ReadLineColors that returns every color ParseColors finds in the buffer
ReadLineColorsNoTruncate(p, r, b, version) ==
    With(ReadLine(p, r, b, version), LAMBDA rl :
        IF rl.err # ErrNil
        THEN [p |-> rl.p, r |-> rl.r, b |-> rl.b, colors |-> << >>,
              err |-> rl.err]
        ELSE With(ParseColors(rl.p, rl.b), LAMBDA pc :
             [p |-> rl.p, r |-> rl.r, b |-> rl.b, colors |-> pc.colors,
              err |-> pc.err]))

ReadLineColors(p, r, b, version) ==
    With(ReadLine(p, r, b, version), LAMBDA rl :
        IF rl.err # ErrNil
        THEN [p |-> rl.p, r |-> rl.r, b |-> rl.b, colors |-> << >>,
              err |-> rl.err]
        ELSE With(ParseColors(rl.p, rl.b), LAMBDA pc :
             IF pc.err # ErrNil
             THEN [p |-> rl.p, r |-> rl.r, b |-> rl.b, colors |-> pc.colors,
                   err |-> pc.err]
             ELSE [p |-> rl.p, r |-> rl.r, b |-> rl.b,
                   colors |-> IF Len(pc.colors) > p.Header.CUPSWidth
                              THEN SubSeq(pc.colors, 1, p.Header.CUPSWidth)
                              ELSE pc.colors,
                   err |-> ErrNil]))

\* the loop of ReadAllColors, from iteration i on, with the colors out
\* collected so far
RECURSIVE readAllColorsLoop(_, _, _, _, _, _, _)
readAllColorsLoop(p, r, b, version, i, n, out) ==
    IF i >= n
    THEN [p |-> p, r |-> r, b |-> b, colors |-> out, err |-> ErrNil]
    ELSE With(ReadLineColors(p, r, b, version), LAMBDA lc :
         IF lc.err = EOF
         THEN [p |-> lc.p, r |-> lc.r, b |-> lc.b, colors |-> out,
               err |-> ErrUnexpectedEOF]
         ELSE IF lc.err # ErrNil
         THEN [p |-> lc.p, r |-> lc.r, b |-> lc.b, colors |-> out,
               err |-> lc.err]
         ELSE readAllColorsLoop(lc.p, lc.r, lc.b, version, i + 1, n,
                                out \o lc.colors))

ReadAllColors(p, r, b, version) ==
    IF Len(b) < p.Header.CUPSBytesPerLine
    THEN [p |-> p, r |-> r, b |-> b, colors |-> << >>,
          err |-> ErrBufferTooSmall]
    ELSE IF UnreadLines(p) = 0
    THEN [p |-> p, r |-> r, b |-> b, colors |-> << >>, err |-> EOF]
    ELSE readAllColorsLoop(p, r, b, version, 0, UnreadLines(p), << >>)

(***************************************************************************)
(* Image.  An image is [kind, Pix, Stride, Rect], Rect being the width     *)
(* and height of the rectangle from (0, 0); NoImage stands for nil.        *)
(***************************************************************************)
NoImage == [kind |-> "nil", Pix |-> << >>, Stride |-> 0, Rect |-> <<0, 0>>]

rect(p) == <<p.Header.CUPSWidth, p.Header.CUPSHeight>>

\* imageOf that keeps the stored bytes of an 8-bit black page
imageOfStoredGray(p, b) ==
    IF p.Header.CUPSColorOrder # ChunkyPixels
    THEN [img |-> NoImage, err |-> ErrUnsupported]
    ELSE IF p.Header.CUPSColorSpace = ColorSpaceBlack
    THEN IF p.Header.CUPSBitsPerColor = 1
         THEN [img |-> [kind |-> "Monochrome", Pix |-> b,
                        Stride |-> p.Header.CUPSBytesPerLine,
                        Rect |-> rect(p)],
               err |-> ErrNil]
         ELSE IF p.Header.CUPSBitsPerColor = 8
         THEN [img |-> [kind |-> "Gray", Pix |-> b,
                        Stride |-> p.Header.CUPSBytesPerLine,
                        Rect |-> rect(p)],
               err |-> ErrNil]
         ELSE [img |-> NoImage, err |-> ErrUnsupported]
    ELSE IF p.Header.CUPSColorSpace = ColorSpaceCMYK
    THEN IF p.Header.CUPSBitsPerColor # 8
         THEN [img |-> NoImage, err |-> ErrUnsupported]
         ELSE [img |-> [kind |-> "CMYK", Pix |-> b,
                        Stride |-> p.Header.CUPSBytesPerLine,
                        Rect |-> rect(p)],
               err |-> ErrNil]
    ELSE [img |-> NoImage, err |-> ErrUnsupported]

\* what Image returns for the page p and its bytes b
imageOf(p, b) ==
    IF p.Header.CUPSColorOrder # ChunkyPixels
    THEN [img |-> NoImage, err |-> ErrUnsupported]
    ELSE IF p.Header.CUPSColorSpace = ColorSpaceBlack
    THEN IF p.Header.CUPSBitsPerColor = 1
         THEN [img |-> [kind |-> "Monochrome", Pix |-> b,
                        Stride |-> p.Header.CUPSBytesPerLine,
                        Rect |-> rect(p)],
               err |-> ErrNil]
         ELSE IF p.Header.CUPSBitsPerColor = 8
         THEN [img |-> [kind |-> "Gray",
                        Pix |-> [i \in 1..Len(b) |-> 255 - b[i]],
                        Stride |-> p.Header.CUPSBytesPerLine,
                        Rect |-> rect(p)],
               err |-> ErrNil]
         ELSE [img |-> NoImage, err |-> ErrUnsupported]
    ELSE IF p.Header.CUPSColorSpace = ColorSpaceCMYK
    THEN IF p.Header.CUPSBitsPerColor # 8
         THEN [img |-> NoImage, err |-> ErrUnsupported]
         ELSE [img |-> [kind |-> "CMYK", Pix |-> b,
                        Stride |-> p.Header.CUPSBytesPerLine,
                        Rect |-> rect(p)],
               err |-> ErrNil]
    ELSE [img |-> NoImage, err |-> ErrUnsupported]

\* Monochrome.PixOffset: the index in Pix of the byte of pixel (x, y)
PixOffset(img, x, y) == y * img.Stride + (x \div 8)

\* the color At(x, y) of an image, for x and y inside its rectangle: of
\* Monochrome, and of the image.Gray and image.CMYK of the library
At(img, x, y) ==
    IF img.kind = "Monochrome"
    THEN IF ((img.Pix[PixOffset(img, x, y) + 1] * 2 ^ (x % 8)) % 256)
               \div 128 = 0
         THEN Gray(255) ELSE Gray(0)
    ELSE IF img.kind = "Gray"
    THEN Gray(img.Pix[y * img.Stride + x + 1])
    ELSE CMYK(img.Pix[y * img.Stride + 4 * x + 1],
              img.Pix[y * img.Stride + 4 * x + 2],
              img.Pix[y * img.Stride + 4 * x + 3],
              img.Pix[y * img.Stride + 4 * x + 4])

\* Image that looks at the color combination before it reads the page
ImageCheckFirst(p, r, version) ==
    With(imageOf(p, << >>), LAMBDA pre :
        IF pre.err # ErrNil
        THEN [p |-> p, r |-> r, img |-> NoImage, err |-> pre.err]
        ELSE With(ReadAll(p, r, Zeros(Size(p)), version), LAMBDA ra :
             IF ra.err # ErrNil
             THEN [p |-> ra.p, r |-> ra.r, img |-> NoImage, err |-> ra.err]
             ELSE With(imageOf(ra.p, ra.b), LAMBDA im :
                  [p |-> ra.p, r |-> ra.r, img |-> im.img, err |-> im.err])))

Image(p, r, version) ==
    With(ReadAll(p, r, Zeros(Size(p)), version), LAMBDA ra :
        IF ra.err # ErrNil
        THEN [p |-> ra.p, r |-> ra.r, img |-> NoImage, err |-> ra.err]
        ELSE With(imageOf(ra.p, ra.b), LAMBDA im :
             [p |-> ra.p, r |-> ra.r, img |-> im.img, err |-> im.err]))

(***************************************************************************)
(* The decoder.  d is [made, n, bo, err, version, curPage]; curPage is an  *)
(* index into pages, 0 for nil.  pages holds every page NextPage has       *)
(* returned, so that superseded pages can still be used.                   *)
(***************************************************************************)
NoDecoder ==
    [made |-> FALSE, n |-> 0, bo |-> "nil", err |-> ErrNil, version |-> 0,
     curPage |-> 0]

\* decodePage without the promotion of io.EOF
decodePageNoPromote(dd, r, pgs) ==
    With(IF dd.version = 1 THEN decodeV1Header([r |-> r, err |-> dd.err], dd.bo)
         ELSE decodeV2Header([r |-> r, err |-> dd.err], dd.bo), LAMBDA dec :
    With([dd EXCEPT !.n = dec.st.r.n, !.err = dec.st.err], LAMBDA d1 :
        IF dec.err # ErrNil
        THEN [d |-> d1, pos |-> dec.st.r.pos, pages |-> pgs,
              err |-> dec.err, page |-> 0]
        ELSE With(bytesPerColor(dec.h), LAMBDA bpc :
             IF bpc.err # ErrNil
             THEN [d |-> d1, pos |-> dec.st.r.pos, pages |-> pgs,
                   err |-> bpc.err, page |-> 0]
             ELSE [d |-> [d1 EXCEPT !.curPage = Len(pgs) + 1],
                   pos |-> dec.st.r.pos,
                   pages |-> Append(pgs, [Header |-> dec.h, line |-> <<>>,
                                          color |-> Zeros(bpc.n),
                                          lineRep |-> 0, linesRead |-> 0]),
                   err |-> ErrNil, page |-> Len(pgs) + 1])))

\* decodePage with io.EOF promoted whether or not bytes were read
decodePagePromoteAll(dd, r, pgs) ==
    With(IF dd.version = 1 THEN decodeV1Header([r |-> r, err |-> dd.err], dd.bo)
         ELSE decodeV2Header([r |-> r, err |-> dd.err], dd.bo), LAMBDA dec :
    With([dd EXCEPT !.n = dec.st.r.n, !.err = dec.st.err], LAMBDA d1 :
        IF dec.err = EOF
        THEN [d |-> d1, pos |-> dec.st.r.pos, pages |-> pgs,
              err |-> ErrUnexpectedEOF, page |-> 0]
        ELSE IF dec.err # ErrNil
        THEN [d |-> d1, pos |-> dec.st.r.pos, pages |-> pgs,
              err |-> dec.err, page |-> 0]
        ELSE With(bytesPerColor(dec.h), LAMBDA bpc :
             IF bpc.err # ErrNil
             THEN [d |-> d1, pos |-> dec.st.r.pos, pages |-> pgs,
                   err |-> bpc.err, page |-> 0]
             ELSE [d |-> [d1 EXCEPT !.curPage = Len(pgs) + 1],
                   pos |-> dec.st.r.pos,
                   pages |-> Append(pgs, [Header |-> dec.h, line |-> <<>>,
                                          color |-> Zeros(bpc.n),
                                          lineRep |-> 0, linesRead |-> 0]),
                   err |-> ErrNil, page |-> Len(pgs) + 1])))

\* the part of NextPage that follows the discard of the current page: dd,
\* r and pgs are the decoder, the reader and the heap after the discard
\* decodePage that decodes every header into the same Header, so that the
\* pages returned before see the header of the new page
decodePageSharedHeader(dd, r, pgs) ==
    With(IF dd.version = 1 THEN decodeV1Header([r |-> r, err |-> dd.err], dd.bo)
         ELSE decodeV2Header([r |-> r, err |-> dd.err], dd.bo), LAMBDA dec :
    With([dd EXCEPT !.n = dec.st.r.n, !.err = dec.st.err], LAMBDA d1 :
        IF dec.err = EOF /\ dec.st.r.n # r.n
        THEN [d |-> d1, pos |-> dec.st.r.pos, pages |-> pgs,
              err |-> ErrUnexpectedEOF, page |-> 0]
        ELSE IF dec.err # ErrNil
        THEN [d |-> d1, pos |-> dec.st.r.pos, pages |-> pgs,
              err |-> dec.err, page |-> 0]
        ELSE With(bytesPerColor(dec.h), LAMBDA bpc :
             IF bpc.err # ErrNil
             THEN [d |-> d1, pos |-> dec.st.r.pos, pages |-> pgs,
                   err |-> bpc.err, page |-> 0]
             ELSE [d |-> [d1 EXCEPT !.curPage = Len(pgs) + 1],
                   pos |-> dec.st.r.pos,
                   pages |-> Append([i \in 1..Len(pgs) |->
                                        [pgs[i] EXCEPT !.Header = dec.h]],
                                    [Header |-> dec.h, line |-> <<>>,
                                     color |-> Zeros(bpc.n),
                                     lineRep |-> 0, linesRead |-> 0]),
                   err |-> ErrNil, page |-> Len(pgs) + 1])))

decodePage(dd, r, pgs) ==
    With(IF dd.version = 1 THEN decodeV1Header([r |-> r, err |-> dd.err], dd.bo)
         ELSE decodeV2Header([r |-> r, err |-> dd.err], dd.bo), LAMBDA dec :
    With([dd EXCEPT !.n = dec.st.r.n, !.err = dec.st.err], LAMBDA d1 :
        IF dec.err = EOF /\ dec.st.r.n # r.n
        THEN [d |-> d1, pos |-> dec.st.r.pos, pages |-> pgs,
              err |-> ErrUnexpectedEOF, page |-> 0]
        ELSE IF dec.err # ErrNil
        THEN [d |-> d1, pos |-> dec.st.r.pos, pages |-> pgs,
              err |-> dec.err, page |-> 0]
        ELSE With(bytesPerColor(dec.h), LAMBDA bpc :
             IF bpc.err # ErrNil
             THEN [d |-> d1, pos |-> dec.st.r.pos, pages |-> pgs,
                   err |-> bpc.err, page |-> 0]
             ELSE [d |-> [d1 EXCEPT !.curPage = Len(pgs) + 1],
                   pos |-> dec.st.r.pos,
                   pages |-> Append(pgs, [Header |-> dec.h, line |-> <<>>,
                                          color |-> Zeros(bpc.n),
                                          lineRep |-> 0, linesRead |-> 0]),
                   err |-> ErrNil, page |-> Len(pgs) + 1])))

\* NextPage that drains a copy of the current page: the stream is advanced
\* past the page, the page itself keeps its unread lines
NextPageDrainCopy(dd, ps, pgs) ==
    IF dd.curPage = 0 THEN decodePage(dd, [pos |-> ps, n |-> dd.n], pgs)
    ELSE With(discard(pgs[dd.curPage], [pos |-> ps, n |-> dd.n], dd.version),
              LAMBDA dis :
         IF dis.err # ErrNil
         THEN [d |-> [dd EXCEPT !.n = dis.r.n], pos |-> dis.r.pos,
               pages |-> pgs, err |-> dis.err, page |-> 0]
         ELSE decodePage([dd EXCEPT !.n = dis.r.n], dis.r, pgs))

\* Decoder.NextPage on decoder dd, stream position ps and page heap pgs:
\* the new decoder, position and heap, the error and the index of the
\* returned page (0 for nil)
NextPageOp(dd, ps, pgs) ==
    IF dd.curPage = 0 THEN decodePage(dd, [pos |-> ps, n |-> dd.n], pgs)
    ELSE With(discard(pgs[dd.curPage], [pos |-> ps, n |-> dd.n], dd.version),
              LAMBDA dis :
         IF dis.err # ErrNil
         THEN [d |-> [dd EXCEPT !.n = dis.r.n], pos |-> dis.r.pos,
               pages |-> [pgs EXCEPT ![dd.curPage] = dis.p],
               err |-> dis.err, page |-> 0]
         ELSE decodePage([dd EXCEPT !.n = dis.r.n], dis.r,
                         [pgs EXCEPT ![dd.curPage] = dis.p]))

\* NewDecoder that reports every stream without a magic, short ones
\* included, as an unknown version
NewDecoderShortUnknown(ps) ==
    With(ReadFull(ps, 4), LAMBDA rf :
        With(parseMagic(rf.data), LAMBDA m :
             IF rf.err # ErrNil \/ ~m.ok
             THEN [d |-> NoDecoder, pos |-> ps + rf.n,
                   err |-> ErrUnknownVersion]
             ELSE [d |-> [made |-> TRUE, n |-> 0, bo |-> m.bo,
                          err |-> ErrNil, version |-> m.version,
                          curPage |-> 0],
                   pos |-> ps + rf.n, err |-> ErrNil]))

\* NewDecoder on the stream at position ps
NewDecoderOp(ps) ==
    With(ReadFull(ps, 4), LAMBDA rf :
        IF rf.err # ErrNil
        THEN [d |-> NoDecoder, pos |-> ps + rf.n, err |-> rf.err]
        ELSE With(parseMagic(rf.data), LAMBDA m :
             IF ~m.ok
             THEN [d |-> NoDecoder, pos |-> ps + rf.n,
                   err |-> ErrUnknownVersion]
             ELSE [d |-> [made |-> TRUE, n |-> 0, bo |-> m.bo,
                          err |-> ErrNil, version |-> m.version,
                          curPage |-> 0],
                   pos |-> ps + rf.n, err |-> ErrNil]))

(***************************************************************************)
(* The state machine.  call and ret record the last call (with the number  *)
(* of lines its page had read before it) and its result; hist records,     *)
(* per page, the last line a ReadLine decoded from the stream: its control *)
(* byte R, the line, and the number k of ReadLine calls that returned a    *)
(* line of the page since.                                                 *)
(***************************************************************************)
\* the buffer a caller passes: blen bytes, each one different
CallerBuffer(blen) == [i \in 1..blen |-> 200 + i]

NoHist == [valid |-> FALSE, R |-> 0, k |-> 0, line |-> << >>]

Init ==
    \E s \in Streams :
        /\ sd = s
        /\ pos = 0
        /\ d = NoDecoder
        /\ pages = << >>
        /\ hist = << >>
        /\ call = [op |-> "none", page |-> 0, blen |-> 0, lines |-> 0]
        /\ ret = [err |-> ErrNil, buf |-> << >>, page |-> 0]

NewDecoderStep(res) ==
    /\ d' = res.d
    /\ pos' = res.pos
    /\ call' = [op |-> "NewDecoder", page |-> 0, blen |-> 0, lines |-> 0]
    /\ ret' = [err |-> res.err, buf |-> << >>, page |-> 0]
    /\ UNCHANGED <<sd, pages, hist>>

NewDecoder ==
    /\ ~d.made
    /\ call.op = "none"
    /\ NewDecoderStep(NewDecoderOp(pos))

NextPageStep(res) ==
    /\ d' = res.d
    /\ pos' = res.pos
    /\ pages' = res.pages
    /\ hist' = [i \in 1..Len(res.pages) |->
                  IF i > Len(pages) THEN NoHist
                  ELSE IF res.pages[i] # pages[i] THEN NoHist
                  ELSE hist[i]]
    /\ call' = [op |-> "NextPage", page |-> d.curPage, blen |-> 0,
                lines |-> IF d.curPage = 0 THEN 0
                          ELSE pages[d.curPage].linesRead]
    /\ ret' = [err |-> res.err, buf |-> << >>, page |-> res.page]
    /\ UNCHANGED sd

NextPage ==
    /\ d.made
    /\ NextPageStep(NextPageOp(d, pos, pages))

\* the buffer lengths a caller passes to ReadLine and to ReadAll: too
\* short, exact and longer for the current page, exact for an earlier page
LineBufLens(pi) ==
    IF pi = d.curPage
    THEN {LineSize(pages[pi]) - 1, LineSize(pages[pi]),
          LineSize(pages[pi]) + 1} \cap Nat
    ELSE {LineSize(pages[pi])}

AllBufLens(pi) ==
    IF pi = d.curPage
    THEN {Size(pages[pi]) - 1, Size(pages[pi]),
          LineSize(pages[pi]) * UnreadLines(pages[pi])} \cap Nat
    ELSE {Size(pages[pi])}

\* hist[pi] after a ReadLine on page p = pages[pi] that returned res
HistAfterReadLine(p, h, blen, res) ==
    IF blen < LineSize(p) \/ UnreadLines(p) = 0 THEN h
    ELSE IF h.valid /\ h.k < h.R THEN [h EXCEPT !.k = h.k + 1]
    ELSE IF res.err = ErrNil /\ d.version = 2 /\ res.r.pos > pos
    THEN [valid |-> TRUE, R |-> StreamBytes(pos, pos + 1)[1], k |-> 0,
          line |-> Prefix(res.b, LineSize(p))]
    ELSE NoHist

ReadLineStep(pi, blen, res) ==
    /\ pages' = [pages EXCEPT ![pi] = res.p]
    /\ pos' = res.r.pos
    /\ d' = [d EXCEPT !.n = res.r.n]
    /\ hist' = [hist EXCEPT ![pi] =
                   HistAfterReadLine(pages[pi], hist[pi], blen, res)]
    /\ call' = [op |-> "ReadLine", page |-> pi, blen |-> blen,
                lines |-> pages[pi].linesRead]
    /\ ret' = [err |-> res.err, buf |-> res.b, page |-> 0]
    /\ UNCHANGED sd

ReadLineAct ==
    \E pi \in 1..Len(pages) : \E blen \in LineBufLens(pi) :
        ReadLineStep(pi, blen,
                     ReadLine(pages[pi], [pos |-> pos, n |-> d.n],
                              CallerBuffer(blen), d.version))

ReadAllStep(pi, blen, res) ==
    /\ pages' = [pages EXCEPT ![pi] = res.p]
    /\ pos' = res.r.pos
    /\ d' = [d EXCEPT !.n = res.r.n]
    /\ hist' = IF res.p = pages[pi] THEN hist
               ELSE [hist EXCEPT ![pi] = NoHist]
    /\ call' = [op |-> "ReadAll", page |-> pi, blen |-> blen,
                lines |-> pages[pi].linesRead]
    /\ ret' = [err |-> res.err, buf |-> res.b, page |-> 0]
    /\ UNCHANGED sd

ReadAllAct ==
    \E pi \in 1..Len(pages) : \E blen \in AllBufLens(pi) :
        ReadAllStep(pi, blen,
                    ReadAll(pages[pi], [pos |-> pos, n |-> d.n],
                            CallerBuffer(blen), d.version))

Next == NewDecoder \/ NextPage \/ ReadLineAct \/ ReadAllAct

Spec == Init /\ [][Next]_vars

(***************************************************************************)
(* The color operations.  ColorSpec is the state machine of every          *)
(* operation of a page, on streams of 1-bit and 8-bit black pages and of   *)
(* 8-bit and 1-bit CMYK pages; the results of the color operations carry   *)
(* the colors or the image they return.                                    *)
(***************************************************************************)
ColorInit ==
    \E s \in ColorStreams :
        /\ sd = s
        /\ pos = 0
        /\ d = NoDecoder
        /\ pages = << >>
        /\ hist = << >>
        /\ call = [op |-> "none", page |-> 0, blen |-> 0, lines |-> 0]
        /\ ret = [err |-> ErrNil, buf |-> << >>, page |-> 0]

ColorsStep(op, pi, blen, res) ==
    /\ pages' = [pages EXCEPT ![pi] = res.p]
    /\ pos' = res.r.pos
    /\ d' = [d EXCEPT !.n = res.r.n]
    /\ hist' = IF res.p = pages[pi] THEN hist
               ELSE [hist EXCEPT ![pi] = NoHist]
    /\ call' = [op |-> op, page |-> pi, blen |-> blen,
                lines |-> pages[pi].linesRead]
    /\ ret' = [err |-> res.err, buf |-> res.b, page |-> 0,
               colors |-> res.colors]
    /\ UNCHANGED sd

ReadLineColorsAct ==
    \E pi \in 1..Len(pages) : \E blen \in LineBufLens(pi) :
        ColorsStep("ReadLineColors", pi, blen,
                   ReadLineColors(pages[pi], [pos |-> pos, n |-> d.n],
                                  CallerBuffer(blen), d.version))

ReadAllColorsAct ==
    \E pi \in 1..Len(pages) : \E blen \in LineBufLens(pi) :
        ColorsStep("ReadAllColors", pi, blen,
                   ReadAllColors(pages[pi], [pos |-> pos, n |-> d.n],
                                 CallerBuffer(blen), d.version))

ImageStep(pi, res) ==
    /\ pages' = [pages EXCEPT ![pi] = res.p]
    /\ pos' = res.r.pos
    /\ d' = [d EXCEPT !.n = res.r.n]
    /\ hist' = IF res.p = pages[pi] THEN hist
               ELSE [hist EXCEPT ![pi] = NoHist]
    /\ call' = [op |-> "Image", page |-> pi, blen |-> 0,
                lines |-> pages[pi].linesRead]
    /\ ret' = [err |-> res.err, buf |-> << >>, page |-> 0, img |-> res.img]
    /\ UNCHANGED sd

ImageAct ==
    \E pi \in 1..Len(pages) :
        ImageStep(pi, Image(pages[pi], [pos |-> pos, n |-> d.n], d.version))

ColorNext ==
    \/ NewDecoder
    \/ NextPage
    \/ ReadLineAct
    \/ ReadAllAct
    \/ ReadLineColorsAct
    \/ ReadAllColorsAct
    \/ ImageAct

ColorSpec == ColorInit /\ [][ColorNext]_vars

(***************************************************************************)
(* ParseColors on its own.  ParseSpec starts with a page around a header   *)
(* of any color order, color space and depth of ParseHeaders and with the  *)
(* bytes to parse in the caller's buffer, ret.buf; its one action applies  *)
(* ParseColors to them.                                                    *)
(***************************************************************************)
\* The line decoders compared: the operations of Spec on the streams of
\* LineStreams.
LineInit ==
    /\ sd \in LineStreams
    /\ pos = 0
    /\ d = NoDecoder
    /\ pages = << >>
    /\ ret = [err |-> ErrNil, buf |-> << >>, page |-> 0]
    /\ hist = << >>
    /\ call = [op |-> "none", page |-> 0, blen |-> 0, lines |-> 0]

LineSpec == LineInit /\ [][Next]_vars

\* Images against colors: the operations of ColorSpec on streams of one
\* page of each type of ImagePageNames.
ImageStreams ==
    { GoodStream(mi, <<name>>, -1) :
        mi \in ColorMagics, name \in ImagePageNames }

ImageInit ==
    /\ sd \in ImageStreams
    /\ pos = 0
    /\ d = NoDecoder
    /\ pages = << >>
    /\ hist = << >>
    /\ call = [op |-> "none", page |-> 0, blen |-> 0, lines |-> 0]
    /\ ret = [err |-> ErrNil, buf |-> << >>, page |-> 0]

ImageSpec == ImageInit /\ [][ColorNext]_vars

(***************************************************************************)
(* The header decoders on their own.  HeaderSpec runs NewDecoder and       *)
(* NextPage on streams of one header, written in each version and byte     *)
(* order, in which one string slot or the word of one boolean field has a  *)
(* content of its own: slots without a zero byte, with bytes after the     *)
(* first zero byte or starting with a zero byte, and words that are 1 in   *)
(* one byte order only.                                                    *)
(***************************************************************************)
\* the contents of a string slot
HeaderSlots ==
    { Repeat(<<65>>, CStringLen),
      Repeat(<<66>>, CStringLen - 1) \o <<0>>,
      <<0>> \o Repeat(<<67>>, CStringLen - 1),
      <<97, 98, 0, 99, 100>> \o Zeros(CStringLen - 5),
      Repeat(<<70, 0>>, CStringLen \div 2),
      Zeros(CStringLen) }

\* the four bytes of a word of the stream, in the order of the stream
HeaderWords ==
    { <<0, 0, 0, 0>>, <<0, 0, 0, 1>>, <<1, 0, 0, 0>>, <<0, 0, 0, 2>>,
      <<2, 0, 0, 0>>, <<0, 0, 1, 1>>, <<1, 1, 0, 0>>, <<1, 0, 0, 1>>,
      <<0, 1, 0, 0>>, <<127, 255, 255, 127>> }

\* where string slot i of the version 2 extension starts in a header
ExtSlotStart(i) ==
    4 * CStringLen + 4 * Len(V1Scalars) + 4 * V2Words + CStringLen * (i - 1)

\* where the word of the scalar field f starts in a header
ScalarStart(f) == 4 * CStringLen + 4 * (ScalarIndex[f] - 1)

\* the changes made to the header of a page without lines: the bytes that
\* replace those at offset at
HeaderChanges(ver) ==
    { [at |-> CStringLen * (k - 1), bytes |-> s] :
        k \in 1..Len(V1Strings), s \in HeaderSlots }
    \cup (IF ver = 1 THEN {}
          ELSE { [at |-> ExtSlotStart(i), bytes |-> s] :
                   i \in {1, NumCUPSStrings, NumCUPSStrings + 1,
                          NumCUPSStrings + 3},
                   s \in HeaderSlots })
    \cup { [at |-> ScalarStart(f), bytes |-> w] :
             f \in BoolFields, w \in HeaderWords }

HeaderStreams ==
    UNION { { BadStream(Magics[mi].bytes
                        \o Splice(HeaderBytes(Magics[mi].ver, Magics[mi].bo,
                                              PageTypeZ),
                                  c.at, c.bytes)) :
                c \in HeaderChanges(Magics[mi].ver) } :
            mi \in 1..Len(Magics) }

HeaderInit ==
    /\ sd \in HeaderStreams
    /\ pos = 0
    /\ d = NoDecoder
    /\ pages = << >>
    /\ hist = << >>
    /\ call = [op |-> "none", page |-> 0, blen |-> 0, lines |-> 0]
    /\ ret = [err |-> ErrNil, buf |-> << >>, page |-> 0]

HeaderNext == NewDecoder \/ NextPage

HeaderSpec == HeaderInit /\ [][HeaderNext]_vars

(***************************************************************************)
(* The width of the header's numbers.  Values up to 2^32 - 1 are to be     *)
(* told apart here, so a number is the sequence of its base-256 digits,    *)
(* the most significant first: 4 digits for a uint32, 8 for an int of 64   *)
(* bits.  An int is [neg, mag], its sign and the digits of its magnitude.  *)
(* The stream of SizeSpec is the words of CUPSHeight and CUPSBytesPerLine; *)
(* the build's width of int, 32 or 64 bits, is kept in hist.               *)
(***************************************************************************)
\* the uint32 binary.Read decodes from the 4 bytes w in byte order bo
Uint32Digits(bo, w) ==
    IF bo = BigEndian THEN w ELSE <<w[4], w[3], w[2], w[1]>>

\* the digits of 2^(8 * Len(u)) - u, for u that is not 0
Negate(u) ==
    LET n == Len(u)
        \* carry[k]: the carry into digit k (counted from the last) of the
        \* sum of the complement of u and 1
        carry[k \in 0..n] ==
            IF k = 0 THEN 1
            ELSE ((255 - u[n - k + 1]) + carry[k - 1]) \div 256
    IN [i \in 1..n |-> ((255 - u[i]) + carry[n - i]) % 256]

\* the conversion int(v) of a uint32 v in a build whose int has bits bits
intOf(u, bits) ==
    IF bits = 32 /\ u[1] >= 128
    THEN [neg |-> TRUE, mag |-> Zeros(4) \o Negate(u)]
    ELSE [neg |-> FALSE, mag |-> Zeros(4) \o u]

\* the 8 digits of the product of the 4-digit numbers a and b
MulDigits(a, b) ==
    LET col[k \in 0..7] ==
            LET term[i \in 0..4] ==
                    IF i = 0 THEN 0
                    ELSE term[i - 1]
                         + (IF k - (i - 1) \in 0..3
                            THEN a[4 - (i - 1)] * b[4 - (k - (i - 1))]
                            ELSE 0)
            IN term[4]
        carry[k \in 0..8] ==
            IF k = 0 THEN 0 ELSE (col[k - 1] + carry[k - 1]) \div 256
    IN [n \in 1..8 |-> (col[8 - n] + carry[8 - n]) % 256]

\* the product of two uint32 as a uint32: the low 32 bits
MulUint32(a, b) == SubSeq(MulDigits(a, b), 5, 8)

\* Page.LineSize and Page.TotalSize on a header of uint32 fields
LineSizeUint32(h) == h.CUPSBytesPerLine

TotalSize(h) == MulUint32(h.CUPSHeight, h.CUPSBytesPerLine)

\* TotalSize computed in 64 bits
TotalSizeWide(h) == MulDigits(h.CUPSHeight, h.CUPSBytesPerLine)

\* the words of the stream the two fields are decoded from: in big-endian
\* order 0, 1, 3, 255, 65535, 65536, 65537, 2^31 - 1, 2^31 and 2^32 - 1
SizeWords ==
    { <<0, 0, 0, 0>>, <<0, 0, 0, 1>>, <<0, 0, 0, 3>>, <<0, 0, 0, 255>>,
      <<0, 0, 255, 255>>, <<0, 1, 0, 0>>, <<0, 1, 0, 1>>,
      <<127, 255, 255, 255>>, <<128, 0, 0, 0>>, <<255, 255, 255, 255>> }

SizeInit ==
    \E h \in SizeWords : \E l \in SizeWords :
    \E bo \in {BigEndian, LittleEndian} : \E bits \in {32, 64} :
        /\ sd = BadStream(h \o l)
        /\ pos = 0
        /\ d = [NoDecoder EXCEPT !.bo = bo]
        /\ pages = << >>
        /\ hist = [bits |-> bits]
        /\ call = [op |-> "none", page |-> 0, blen |-> 0, lines |-> 0]
        /\ ret = [err |-> ErrNil, buf |-> << >>, page |-> 0]

\* the two fields as decodeV1Header stores them, as uint32 and as int,
\* and the sizes of the page
SizeStep(h) ==
    /\ call' = [op |-> "TotalSize", page |-> 0, blen |-> 0, lines |-> 0]
    /\ ret' = [err |-> ErrNil, buf |-> << >>, page |-> 0,
               CUPSHeight |-> h.CUPSHeight,
               CUPSBytesPerLine |-> h.CUPSBytesPerLine,
               intHeight |-> intOf(h.CUPSHeight, hist.bits),
               intBytesPerLine |-> intOf(h.CUPSBytesPerLine, hist.bits),
               LineSize |-> LineSizeUint32(h),
               TotalSize |-> TotalSize(h)]
    /\ UNCHANGED <<sd, pos, d, pages, hist>>

SizeAct ==
    /\ call.op = "none"
    /\ SizeStep([CUPSHeight |-> Uint32Digits(d.bo, StreamBytes(0, 4)),
                 CUPSBytesPerLine |-> Uint32Digits(d.bo, StreamBytes(4, 8))])

SizeNext == SizeAct

SizeSpec == SizeInit /\ [][SizeNext]_vars

(***************************************************************************)
(* The packet loop of readV2Line, iteration by iteration.  PacketSpec runs *)
(* the decoder on streams of version 2 of one page: a page of 2-byte color *)
(* groups, a page whose color group is 0 bytes wide and a page of 0 bytes  *)
(* a line, whole and cut at every byte of the data.  A ReadLine that       *)
(* reaches the packet loop is three kinds of step: readV2LineEnter up to   *)
(* the loop, readV2LineIter for one iteration, readV2LineLeave for the     *)
(* copy after it.  While the call runs call.op is "readV2Line" and         *)
(* call.iter counts the iterations made.                                   *)
(***************************************************************************)
PacketStreams ==
    { GoodStream(mi, <<name>>, -1) :
        mi \in PacketMagics, name \in PacketPageNames }
    \cup UNION { { GoodStream(mi, <<name>>, HeaderLen(2) + i) :
                     i \in 0..(DataLen(2, name) - 1) } :
                 mi \in PacketMagics, name \in PacketPageNames }

PacketInit ==
    /\ sd \in PacketStreams
    /\ pos = 0
    /\ d = NoDecoder
    /\ pages = << >>
    /\ hist = << >>
    /\ call = [op |-> "none", page |-> 0, blen |-> 0, lines |-> 0]
    /\ ret = [err |-> ErrNil, buf |-> << >>, page |-> 0]

\* no ReadLine is inside readV2Line
Idle == call.op # "readV2Line"

\* ReadLine(b) on page pi, with len(b) = blen, gets to the packet loop
EntersLoop(pi, blen) ==
    /\ blen >= LineSize(pages[pi])
    /\ UnreadLines(pages[pi]) > 0
    /\ d.version = 2
    /\ pages[pi].lineRep = 0
    /\ countingRead([pos |-> pos, n |-> d.n], 1).err = ErrNil

PacketNewDecoder == Idle /\ NewDecoder

PacketNextPage == Idle /\ NextPage

\* a ReadLine that returns without getting to the packet loop
ReadLineDirect ==
    /\ Idle
    /\ \E pi \in 1..Len(pages) : \E blen \in LineBufLens(pi) :
        /\ ~EntersLoop(pi, blen)
        /\ ReadLineStep(pi, blen,
                        ReadLine(pages[pi], [pos |-> pos, n |-> d.n],
                                 CallerBuffer(blen), d.version))

\* ReadLine and readV2Line up to the packet loop: the line is counted, the
\* repeat byte read, the cached line emptied
readV2LineEnter ==
    /\ Idle
    /\ \E pi \in 1..Len(pages) : \E blen \in LineBufLens(pi) :
        /\ EntersLoop(pi, blen)
        /\ With(countingRead([pos |-> pos, n |-> d.n], 1), LAMBDA c :
            /\ pages' = [pages EXCEPT ![pi] =
                           [@ EXCEPT !.linesRead = @ + 1, !.line = << >>,
                                     !.lineRep = c.data[1]]]
            /\ pos' = c.r.pos
            /\ d' = [d EXCEPT !.n = c.r.n]
            /\ hist' = [hist EXCEPT ![pi] =
                           [valid |-> FALSE, R |-> c.data[1], k |-> 0,
                            line |-> << >>]])
        /\ call' = [op |-> "readV2Line", page |-> pi, blen |-> blen,
                    lines |-> pages[pi].linesRead, iter |-> 0]
        /\ ret' = [err |-> ErrNil, buf |-> CallerBuffer(blen), page |-> 0]
        /\ UNCHANGED sd

\* one iteration of the packet loop; a failed read returns from the call
readV2LineIter ==
    /\ call.op = "readV2Line"
    /\ Len(pages[call.page].line) < LineSize(pages[call.page])
    /\ With(readPacket([line |-> pages[call.page].line,
                        color |-> pages[call.page].color,
                        r |-> [pos |-> pos, n |-> d.n], err |-> ErrNil]),
            LAMBDA pk :
            /\ pages' = [pages EXCEPT ![call.page] =
                           [@ EXCEPT !.line = pk.line, !.color = pk.color]]
            /\ pos' = pk.r.pos
            /\ d' = [d EXCEPT !.n = pk.r.n]
            /\ call' = [call EXCEPT !.iter = @ + 1,
                                    !.op = IF pk.err = ErrNil THEN @
                                           ELSE "ReadLine"]
            /\ ret' = [ret EXCEPT !.err = promoteEOF(pk.err)]
            /\ hist' = IF pk.err = ErrNil THEN hist
                       ELSE [hist EXCEPT ![call.page] = NoHist])
    /\ UNCHANGED sd

\* the end of readV2Line after the loop: the line is copied to the buffer
readV2LineLeave ==
    /\ call.op = "readV2Line"
    /\ Len(pages[call.page].line) >= LineSize(pages[call.page])
    /\ ret' = [ret EXCEPT !.buf = copy(@, pages[call.page].line)]
    /\ call' = [call EXCEPT !.op = "ReadLine"]
    /\ hist' = [hist EXCEPT ![call.page] =
                   [@ EXCEPT !.valid = TRUE,
                             !.line = Prefix(ret'.buf,
                                             LineSize(pages[call.page]))]]
    /\ UNCHANGED <<sd, pos, d, pages>>

PacketNext ==
    \/ PacketNewDecoder
    \/ PacketNextPage
    \/ ReadLineDirect
    \/ readV2LineEnter
    \/ readV2LineIter
    \/ readV2LineLeave

PacketSpec == PacketInit /\ [][PacketNext]_vars

\* the longest input of which every filling with ParseBytes is parsed
MaxInputLen == 4

ParseBytes == {0, 165, 255}

ParseInputs ==
    UNION { [1..k -> ParseBytes] : k \in 0..MaxInputLen }
    \cup { <<10, 20, 30, 40>>, <<10, 20, 30, 40, 50>>,
           <<10, 20, 30, 40, 50, 60, 70, 80>> }

ParseHeaders ==
    { [ExpHeader(1, PageTypeA) EXCEPT !.CUPSColorOrder = co,
                                      !.CUPSColorSpace = cs,
                                      !.CUPSBitsPerColor = bpc] :
        co \in {ChunkyPixels, BandedPixels, PlanarPixels},
        cs \in {ColorSpaceGray, ColorSpaceRGB, ColorSpaceBlack,
                ColorSpaceCMYK},
        bpc \in {1, 2, 8, 16} }

ParseInit ==
    \E h \in ParseHeaders : \E b \in ParseInputs :
        /\ sd = BadStream(<< >>)
        /\ pos = 0
        /\ d = NoDecoder
        /\ pages = << [Header |-> h, line |-> << >>, color |-> Zeros(1),
                       lineRep |-> 0, linesRead |-> 0] >>
        /\ hist = << NoHist >>
        /\ call = [op |-> "none", page |-> 0, blen |-> 0, lines |-> 0]
        /\ ret = [err |-> ErrNil, buf |-> b, page |-> 0]

ParseColorsStep(pi, res) ==
    /\ call' = [op |-> "ParseColors", page |-> pi, blen |-> Len(ret.buf),
                lines |-> pages[pi].linesRead]
    /\ ret' = [err |-> res.err, buf |-> ret.buf, page |-> 0,
               colors |-> res.colors]
    /\ UNCHANGED <<sd, pos, d, pages, hist>>

ParseColorsAct ==
    \E pi \in 1..Len(pages) :
        ParseColorsStep(pi, ParseColors(pages[pi], ret.buf))

ParseNext == ParseColorsAct

ParseSpec == ParseInit /\ [][ParseNext]_vars

(***************************************************************************)
(* The options parser.  A string is the sequence of its bytes, all below   *)
(* 128 in the inputs; the decoder is the input with the offset of the next *)
(* byte (the number of bytes consumed).  The parsing functions return the  *)
(* value parsed and the new offset, or a SyntaxError (its Offset in at).   *)
(***************************************************************************)
ErrSyntax == "SyntaxError"

SyntaxError(off, msg) ==
    [v |-> << >>, off |-> off, err |-> ErrSyntax, at |-> off, msg |-> msg]

Parsed(v, off) == [v |-> v, off |-> off, err |-> ErrNil, at |-> 0, msg |-> ""]

\* unicode.IsSpace, for a byte below 128
IsSpace(c) == c \in {9, 10, 11, 12, 13, 32}

\* decoder.consumeSpace: the offset of the first byte from off on that is no
\* space, or the end of the input
consumeSpace(in, off) ==
    IF off >= Len(in) THEN off
    ELSE IF \A i \in (off + 1)..Len(in) : IsSpace(in[i]) THEN Len(in)
    ELSE CHOOSE o \in off..(Len(in) - 1) :
            /\ ~IsSpace(in[o + 1])
            /\ \A i \in (off + 1)..o : IsSpace(in[i])

\* decoder.parseName: the bytes after the spaces up to the next space or '='
parseName(in, off) ==
    LET start == consumeSpace(in, off)
        stops == { o \in start..(Len(in) - 1) :
                     IsSpace(in[o + 1]) \/ in[o + 1] = 61 }
        end == IF stops = {} THEN Len(in)
               ELSE CHOOSE o \in stops : \A x \in stops : o <= x
    IN [name |-> SubSeq(in, start + 1, end), off |-> end]

\* decoder.parseOctal of the digits s at offset off: string(n) is the UTF-8
\* coding of the code point n
parseOctal(s, off) ==
    IF Len(s) # 3 THEN SyntaxError(off, "invalid octal number")
    ELSE LET n == 64 * (s[1] - 48) + 8 * (s[2] - 48) + (s[3] - 48)
         IN Parsed(IF n < 128 THEN <<n>>
                   ELSE <<192 + (n \div 64), 128 + (n % 64)>>, off)

\* the bytes parseString takes as they are in its default case
ValidByte(c) ==
    \/ c = 33
    \/ c >= 35 /\ c <= 38
    \/ c >= 40 /\ c <= 91
    \/ c >= 93 /\ c <= 126
    \/ c >= 160 /\ c <= 255

\* One pass of the loop of parseString in the state s = [off, v, escape,
\* octal] at the byte c: the state after it, with err set if the pass
\* returns an error and brk set if it breaks the loop.
parseStringStep(quoted, open, s, c) ==
    With(s.octal # << >> /\ (c < 48 \/ c > 55 \/ Len(s.octal) = 3),
         LAMBDA flush :
    With(IF flush THEN parseOctal(s.octal, s.off) ELSE Parsed(<< >>, s.off),
         LAMBDA po :
    IF po.err # ErrNil THEN [s EXCEPT !.err = po]
    ELSE
    With(IF flush
         THEN [s EXCEPT !.escape = FALSE, !.v = s.v \o po.v, !.octal = << >>]
         ELSE s, LAMBDA s1 :
    With([s1 EXCEPT !.v = s1.v \o <<c>>, !.escape = FALSE,
                    !.off = s.off + 1], LAMBDA add :
       IF c = 92
       THEN IF s1.escape THEN add
            ELSE [s1 EXCEPT !.escape = TRUE, !.off = s.off + 1]
       ELSE IF c \in {34, 39}
       THEN IF ~s1.escape /\ quoted /\ c = open
            THEN [s1 EXCEPT !.brk = TRUE]
            ELSE IF ~s1.escape /\ ~quoted
            THEN [s1 EXCEPT !.err =
                     SyntaxError(s.off, "unescaped quote in unquoted string")]
            ELSE add
       ELSE IF c = 32
       THEN IF quoted \/ s1.escape THEN add ELSE [s1 EXCEPT !.brk = TRUE]
       ELSE IF c >= 48 /\ c <= 57
       THEN IF c < 56 /\ (s1.octal # << >> \/ s1.escape)
            THEN [s1 EXCEPT !.octal = s1.octal \o <<c>>, !.escape = FALSE,
                            !.off = s.off + 1]
            ELSE add
       ELSE IF c = 44
       THEN IF quoted THEN add ELSE [s1 EXCEPT !.brk = TRUE]
       ELSE IF ValidByte(c) THEN add
       ELSE [s1 EXCEPT !.err =
                SyntaxError(s.off, "invalid byte in string")]))))

\* the loop of parseString from the state s0: the state in which it ends
RECURSIVE parseStringLoop(_, _, _, _)
parseStringLoop(in, quoted, open, s0) ==
    With(s0, LAMBDA s :
        IF s.off >= Len(in) THEN s
        ELSE With(parseStringStep(quoted, open, s, in[s.off + 1]), LAMBDA n :
                 IF n.brk \/ n.err.err # ErrNil THEN n
                 ELSE parseStringLoop(in, quoted, open, n)))

\* decoder.parseString
parseString(in, off, quoted) ==
    IF off >= Len(in) THEN SyntaxError(off, "unexpected end of input")
    ELSE IF quoted /\ Len(in) - off < 2
    THEN SyntaxError(off, "unexpected end of input")
    ELSE
    With(parseStringLoop(in, quoted, in[off + 1],
             [off |-> IF quoted THEN off + 1 ELSE off, v |-> << >>,
              escape |-> FALSE, octal |-> << >>, brk |-> FALSE,
              err |-> Parsed(<< >>, 0)]), LAMBDA s :
    With(IF quoted THEN s.off + 1 ELSE s.off, LAMBDA end :
       IF s.err.err # ErrNil THEN s.err
       ELSE IF quoted /\ s.off >= Len(in)
       THEN SyntaxError(s.off, "unexpected end of input")
       ELSE IF s.octal # << >>
       THEN With(parseOctal(s.octal, end), LAMBDA po :
                IF po.err # ErrNil THEN po ELSE Parsed(s.v \o po.v, end))
       ELSE Parsed(s.v, end)))

\* the pass of the loop of extractCollection that counts the braces inside
\* quotes too
extractStepCountQuoted(s, c) ==
    With(IF ~s.escape THEN 1 ELSE 0, LAMBDA counts :
    With([s EXCEPT !.off = s.off + 1, !.escape = FALSE], LAMBDA next :
       IF c = 123 THEN [next EXCEPT !.depth = s.depth + counts]
       ELSE IF c = 125
       THEN [next EXCEPT !.depth = s.depth - counts,
                         !.done = s.depth - counts = 0]
       ELSE IF c = 92 THEN [next EXCEPT !.escape = ~s.escape]
       ELSE IF c \in {34, 39} /\ ~s.escape
       THEN [next EXCEPT !.quote = IF c = s.quote THEN 0
                                   ELSE IF s.quote = 0 THEN c
                                   ELSE s.quote]
       ELSE next))

\* One pass of the loop of extractCollection in the state s = [off, depth,
\* escape, quote] (quote 0 outside quotes) at the byte c: the state after
\* it, with done set if the pass returns the collection.
extractStep(s, c) ==
    With(IF ~s.escape /\ s.quote = 0 THEN 1 ELSE 0, LAMBDA counts :
    With([s EXCEPT !.off = s.off + 1, !.escape = FALSE], LAMBDA next :
       IF c = 123 THEN [next EXCEPT !.depth = s.depth + counts]
       ELSE IF c = 125
       THEN [next EXCEPT !.depth = s.depth - counts,
                         !.done = s.depth - counts = 0]
       ELSE IF c = 92 THEN [next EXCEPT !.escape = ~s.escape]
       ELSE IF c \in {34, 39} /\ ~s.escape
       THEN [next EXCEPT !.quote = IF c = s.quote THEN 0
                                   ELSE IF s.quote = 0 THEN c
                                   ELSE s.quote]
       ELSE next))

\* the loop of extractCollection from the state s0, for a collection that
\* starts at start
RECURSIVE extractLoop(_, _, _)
extractLoop(in, start, s0) ==
    With(s0, LAMBDA s :
        IF s.off >= Len(in)
        THEN SyntaxError(s.off, "unexpected end of input")
        ELSE With(extractStep(s, in[s.off + 1]), LAMBDA n :
                 IF n.done THEN Parsed(SubSeq(in, start + 1, n.off), n.off)
                 ELSE extractLoop(in, start, n)))

\* decoder.extractCollection
extractCollection(in, off) ==
    extractLoop(in, off, [off |-> off, depth |-> 0, escape |-> FALSE,
                          quote |-> 0, done |-> FALSE])

\* decoder.parseValue
parseValue(in, off) ==
    With(consumeSpace(in, off), LAMBDA o :
       IF o >= Len(in) THEN SyntaxError(o, "unexpected end of input")
       ELSE IF in[o + 1] = 123 THEN extractCollection(in, o)
       ELSE parseString(in, o, in[o + 1] \in {34, 39}))

\* the value loop that puts each value before the values parsed so far
RECURSIVE valueLoopPrepend(_, _, _)
valueLoopPrepend(in, off0, vals0) ==
    With(<<off0, vals0>>, LAMBDA a :
    IF a[1] >= Len(in) THEN Parsed(a[2], a[1])
    ELSE With(parseValue(in, a[1]), LAMBDA pv :
         With(pv.off < Len(in) /\ in[pv.off + 1] = 44, LAMBDA comma :
            IF pv.err # ErrNil THEN pv
            ELSE IF comma /\ Len(in) - pv.off = 1
            THEN SyntaxError(pv.off, "unexpected end of input")
            ELSE IF ~comma /\ pv.off < Len(in) /\ in[pv.off + 1] = 32
            THEN Parsed(<<pv.v>> \o a[2], pv.off)
            ELSE valueLoopPrepend(in, IF comma THEN pv.off + 1 ELSE pv.off, <<pv.v>> \o a[2]))))

\* the value loop of ParseOptions, with the values vals parsed so far
RECURSIVE valueLoop(_, _, _)
valueLoop(in, off0, vals0) ==
    With(<<off0, vals0>>, LAMBDA a :
    IF a[1] >= Len(in) THEN Parsed(a[2], a[1])
    ELSE With(parseValue(in, a[1]), LAMBDA pv :
         With(pv.off < Len(in) /\ in[pv.off + 1] = 44, LAMBDA comma :
            IF pv.err # ErrNil THEN pv
            ELSE IF comma /\ Len(in) - pv.off = 1
            THEN SyntaxError(pv.off, "unexpected end of input")
            ELSE IF ~comma /\ pv.off < Len(in) /\ in[pv.off + 1] = 32
            THEN Parsed(Append(a[2], pv.v), pv.off)
            ELSE valueLoop(in, IF comma THEN pv.off + 1 ELSE pv.off, Append(a[2], pv.v)))))

\* an Option; Values << >> is the nil slice
Option(name, values) == [Name |-> name, Values |-> values]

\* the option loop that returns the options appended so far with the error
RECURSIVE optionLoopPartial(_, _, _, _)
optionLoopPartial(in, off0, v, option) ==
    With(off0, LAMBDA off :
    With(IF option.Name # << >> THEN Append(v, option) ELSE v, LAMBDA v1 :
    IF off >= Len(in) THEN Parsed(v1, off)
    ELSE
    With(parseName(in, off), LAMBDA pn :
    IF pn.name = << >> THEN Parsed(v1, pn.off)
    ELSE
    With(consumeSpace(in, pn.off), LAMBDA o :
    IF o >= Len(in) THEN Parsed(Append(v1, Option(pn.name, << >>)), o)
    ELSE
    With(in[o + 1] = 61, LAMBDA eq :
    With(IF eq THEN valueLoop(in, o + 1, << >>) ELSE Parsed(<< >>, o),
         LAMBDA vl :
       IF eq /\ vl.err # ErrNil THEN [vl EXCEPT !.v = v1]
       ELSE IF eq /\ vl.v = << >>
       THEN [SyntaxError(vl.off, "unexpected end of input") EXCEPT !.v = v1]
       ELSE optionLoopPartial(in, vl.off,
                 IF eq THEN v1 ELSE Append(v1, Option(pn.name, << >>)),
                 IF eq THEN Option(pn.name, vl.v)
                 ELSE Option(<< >>, << >>))))))))

\* The option loop of ParseOptions at offset off, with the options v
\* appended so far and the pending option (Name << >> if there is none);
\* its result is the list returned (<< >> for nil) and the error.
RECURSIVE optionLoop(_, _, _, _)
optionLoop(in, off0, v, option) ==
    With(off0, LAMBDA off :
    With(IF option.Name # << >> THEN Append(v, option) ELSE v, LAMBDA v1 :
    IF off >= Len(in) THEN Parsed(v1, off)
    ELSE
    With(parseName(in, off), LAMBDA pn :
    IF pn.name = << >> THEN Parsed(v1, pn.off)
    ELSE
    With(consumeSpace(in, pn.off), LAMBDA o :
    IF o >= Len(in) THEN Parsed(Append(v1, Option(pn.name, << >>)), o)
    ELSE
    With(in[o + 1] = 61, LAMBDA eq :
    With(IF eq THEN valueLoop(in, o + 1, << >>) ELSE Parsed(<< >>, o),
         LAMBDA vl :
       IF eq /\ vl.err # ErrNil THEN vl
       ELSE IF eq /\ vl.v = << >>
       THEN SyntaxError(vl.off, "unexpected end of input")
       ELSE optionLoop(in, vl.off,
                 IF eq THEN v1 ELSE Append(v1, Option(pn.name, << >>)),
                 IF eq THEN Option(pn.name, vl.v)
                 ELSE Option(<< >>, << >>))))))))

ParseOptions(s) ==
    IF Len(s) = 0 THEN Parsed(<< >>, 0)
    ELSE With(IF Len(s) >= 2 /\ s[1] = 123 /\ s[Len(s)] = 125
              THEN SubSeq(s, 2, Len(s) - 1) ELSE s, LAMBDA in :
            optionLoop(in, 0, << >>, Option(<< >>, << >>)))

(***************************************************************************)
(* The inputs of the options parser, as byte sequences (the string each    *)
(* stands for is in the comment that follows it).  The good inputs are     *)
(* rendered from a description: a list of options, each a name and the     *)
(* list of its value forms (none for a name without '='); a value form is  *)
(* the text of a value with the value it stands for.  An option counts     *)
(* 1 + the number of its values, and a description counts at most          *)
(* MaxOptTokens.                                                           *)
(***************************************************************************)
MaxOptTokens == 3

OptionNames == {<<97>>, <<98, 99>>}   \* a, bc

\* values that are strings: v1   J\'s\ \101   "p,q"   'r s'   "a\"b{"
StringForms ==
    { [text |-> <<118, 49>>,
       value |-> <<118, 49>>],
      [text |-> <<74, 92, 39, 115, 92, 32, 92, 49, 48, 49>>,
       value |-> <<74, 39, 115, 32, 65>>],
      [text |-> <<34, 112, 44, 113, 34>>,
       value |-> <<112, 44, 113>>],
      [text |-> <<39, 114, 32, 115, 39>>,
       value |-> <<114, 32, 115>>],
      [text |-> <<34, 97, 92, 34, 98, 123, 34>>,
       value |-> <<97, 34, 98, 123>>] }

\* values that are collections: {x=1 y=2}   {m={x,y}}   {f="}" g='{'}   {f=\}\{}
CollectionForms ==
    { [text |-> <<123, 120, 61, 49, 32, 121, 61, 50, 125>>,
       value |-> <<123, 120, 61, 49, 32, 121, 61, 50, 125>>],
      [text |-> <<123, 109, 61, 123, 120, 44, 121, 125, 125>>,
       value |-> <<123, 109, 61, 123, 120, 44, 121, 125, 125>>],
      [text |-> <<123, 102, 61, 34, 125, 34, 32, 103, 61, 39, 123, 39, 125>>,
       value |-> <<123, 102, 61, 34, 125, 34, 32, 103, 61, 39, 123, 39, 125>>],
      [text |-> <<123, 102, 61, 92, 125, 92, 123, 125>>,
       value |-> <<123, 102, 61, 92, 125, 92, 123, 125>>] }

\* the ends of an input that make it invalid, after the '=' of its last
\* option or after a value and a comma: nothing, spaces, an unclosed quote,
\* an unclosed collection, an octal escape of 1 or 2 digits
\*   ()   (  )   ("abc)   ('a"b)   (")   ("a\")   ({a)   ({a{b})   ({a="}")   ({a\})   (\2)   (\23)   (\2x)   ("\23")   (\1\101)
BadTails ==
    { [text |-> << >>, kind |-> "novalue"],
      [text |-> <<32, 32>>, kind |-> "novalue"],
      [text |-> <<34, 97, 98, 99>>, kind |-> "quote"],
      [text |-> <<39, 97, 34, 98>>, kind |-> "quote"],
      [text |-> <<34>>, kind |-> "quote"],
      [text |-> <<34, 97, 92, 34>>, kind |-> "quote"],
      [text |-> <<123, 97>>, kind |-> "brace"],
      [text |-> <<123, 97, 123, 98, 125>>, kind |-> "brace"],
      [text |-> <<123, 97, 61, 34, 125, 34>>, kind |-> "brace"],
      [text |-> <<123, 97, 92, 125>>, kind |-> "brace"],
      [text |-> <<92, 50>>, kind |-> "octal"],
      [text |-> <<92, 50, 51>>, kind |-> "octal"],
      [text |-> <<92, 50, 120>>, kind |-> "octal"],
      [text |-> <<34, 92, 50, 51, 34>>, kind |-> "octal"],
      [text |-> <<92, 49, 92, 49, 48, 49>>, kind |-> "octal"] }

\* inputs with the result the tests of the parser expect: the options, or
\* the SyntaxError with its offset
\*   ()
\*   (  )
\*   (foo=false)
\*   (foo=v1,v2 bar='v3,v4')
\*   (foo bar)
\*   ({x=123 y=456})
\*   (m={s={x=1 y=2}})
\*   (n=J\'s\ R\040N)
\*   (foo=value bar)
\*   (foo bar=value)
\*   ({m={x=123 y=456}})
\*   (field={foo="bar}"})
\*   (field={foo="{bar}}"})
\*   (field={foo="b\"ar}"})
\*   (field=  )
\*   (field={)
\*   (field=")
\*   (field=\23)
\*   (field=,)
\*   (foo=value1,)
\*   (0=)
TestCases ==
    { [in |-> << >>,
       opts |-> << >>,
       err |-> ErrNil, at |-> 0],
      [in |-> <<32, 32>>,
       opts |-> << >>,
       err |-> ErrNil, at |-> 0],
      [in |-> <<102, 111, 111, 61, 102, 97, 108, 115, 101>>,
       opts |-> <<[Name |-> <<102, 111, 111>>, Values |-> <<<<102, 97, 108, 115, 101>>>>]>>,
       err |-> ErrNil, at |-> 0],
      [in |-> <<102, 111, 111, 61, 118, 49, 44, 118, 50, 32, 98, 97, 114, 61, 39, 118, 51, 44, 118, 52, 39>>,
       opts |-> <<[Name |-> <<102, 111, 111>>, Values |-> <<<<118, 49>>, <<118, 50>>>>], [Name |-> <<98, 97, 114>>, Values |-> <<<<118, 51, 44, 118, 52>>>>]>>,
       err |-> ErrNil, at |-> 0],
      [in |-> <<102, 111, 111, 32, 98, 97, 114>>,
       opts |-> <<[Name |-> <<102, 111, 111>>, Values |-> << >>], [Name |-> <<98, 97, 114>>, Values |-> << >>]>>,
       err |-> ErrNil, at |-> 0],
      [in |-> <<123, 120, 61, 49, 50, 51, 32, 121, 61, 52, 53, 54, 125>>,
       opts |-> <<[Name |-> <<120>>, Values |-> <<<<49, 50, 51>>>>], [Name |-> <<121>>, Values |-> <<<<52, 53, 54>>>>]>>,
       err |-> ErrNil, at |-> 0],
      [in |-> <<109, 61, 123, 115, 61, 123, 120, 61, 49, 32, 121, 61, 50, 125, 125>>,
       opts |-> <<[Name |-> <<109>>, Values |-> <<<<123, 115, 61, 123, 120, 61, 49, 32, 121, 61, 50, 125, 125>>>>]>>,
       err |-> ErrNil, at |-> 0],
      [in |-> <<110, 61, 74, 92, 39, 115, 92, 32, 82, 92, 48, 52, 48, 78>>,
       opts |-> <<[Name |-> <<110>>, Values |-> <<<<74, 39, 115, 32, 82, 32, 78>>>>]>>,
       err |-> ErrNil, at |-> 0],
      [in |-> <<102, 111, 111, 61, 118, 97, 108, 117, 101, 32, 98, 97, 114>>,
       opts |-> <<[Name |-> <<102, 111, 111>>, Values |-> <<<<118, 97, 108, 117, 101>>>>], [Name |-> <<98, 97, 114>>, Values |-> << >>]>>,
       err |-> ErrNil, at |-> 0],
      [in |-> <<102, 111, 111, 32, 98, 97, 114, 61, 118, 97, 108, 117, 101>>,
       opts |-> <<[Name |-> <<102, 111, 111>>, Values |-> << >>], [Name |-> <<98, 97, 114>>, Values |-> <<<<118, 97, 108, 117, 101>>>>]>>,
       err |-> ErrNil, at |-> 0],
      [in |-> <<123, 109, 61, 123, 120, 61, 49, 50, 51, 32, 121, 61, 52, 53, 54, 125, 125>>,
       opts |-> <<[Name |-> <<109>>, Values |-> <<<<123, 120, 61, 49, 50, 51, 32, 121, 61, 52, 53, 54, 125>>>>]>>,
       err |-> ErrNil, at |-> 0],
      [in |-> <<102, 105, 101, 108, 100, 61, 123, 102, 111, 111, 61, 34, 98, 97, 114, 125, 34, 125>>,
       opts |-> <<[Name |-> <<102, 105, 101, 108, 100>>, Values |-> <<<<123, 102, 111, 111, 61, 34, 98, 97, 114, 125, 34, 125>>>>]>>,
       err |-> ErrNil, at |-> 0],
      [in |-> <<102, 105, 101, 108, 100, 61, 123, 102, 111, 111, 61, 34, 123, 98, 97, 114, 125, 125, 34, 125>>,
       opts |-> <<[Name |-> <<102, 105, 101, 108, 100>>, Values |-> <<<<123, 102, 111, 111, 61, 34, 123, 98, 97, 114, 125, 125, 34, 125>>>>]>>,
       err |-> ErrNil, at |-> 0],
      [in |-> <<102, 105, 101, 108, 100, 61, 123, 102, 111, 111, 61, 34, 98, 92, 34, 97, 114, 125, 34, 125>>,
       opts |-> <<[Name |-> <<102, 105, 101, 108, 100>>, Values |-> <<<<123, 102, 111, 111, 61, 34, 98, 92, 34, 97, 114, 125, 34, 125>>>>]>>,
       err |-> ErrNil, at |-> 0],
      [in |-> <<102, 105, 101, 108, 100, 61, 32, 32>>,
       opts |-> << >>,
       err |-> ErrSyntax, at |-> 8],
      [in |-> <<102, 105, 101, 108, 100, 61, 123>>,
       opts |-> << >>,
       err |-> ErrSyntax, at |-> 7],
      [in |-> <<102, 105, 101, 108, 100, 61, 34>>,
       opts |-> << >>,
       err |-> ErrSyntax, at |-> 6],
      [in |-> <<102, 105, 101, 108, 100, 61, 92, 50, 51>>,
       opts |-> << >>,
       err |-> ErrSyntax, at |-> 9],
      [in |-> <<102, 105, 101, 108, 100, 61, 44>>,
       opts |-> << >>,
       err |-> ErrSyntax, at |-> 6],
      [in |-> <<102, 111, 111, 61, 118, 97, 108, 117, 101, 49, 44>>,
       opts |-> << >>,
       err |-> ErrSyntax, at |-> 10],
      [in |-> <<48, 61>>,
       opts |-> << >>,
       err |-> ErrSyntax, at |-> 2] }

ValueForms == StringForms \cup CollectionForms

\* the options that count s
OptionsOfSize(s) ==
    { [name |-> nm, vals |-> vs] :
        nm \in OptionNames, vs \in [1..(s - 1) -> ValueForms] }

\* the descriptions that count n
RECURSIVE DescsOfSize(_)
DescsOfSize(n) ==
    IF n = 0 THEN {<< >>}
    ELSE UNION { { <<o>> \o rest :
                     o \in OptionsOfSize(s), rest \in DescsOfSize(n - s) } :
                 s \in 1..n }

Descs == UNION { DescsOfSize(n) : n \in 1..MaxOptTokens }

\* the text of an option: its name, and '=' with its values separated by
\* commas if it has values
RenderOption(o) ==
    IF o.vals = << >> THEN o.name
    ELSE o.name \o <<61>>
         \o Flatten([j \in 1..Len(o.vals) |->
                       IF j = 1 THEN o.vals[j].text
                       ELSE <<44>> \o o.vals[j].text])

\* the text of a description: its options separated by a space
Render(desc) ==
    Flatten([i \in 1..Len(desc) |->
               IF i = 1 THEN RenderOption(desc[i])
               ELSE <<32>> \o RenderOption(desc[i])])

\* the options a description stands for
OptionsOf(desc) ==
    [i \in 1..Len(desc) |->
        Option(desc[i].name,
               [j \in 1..Len(desc[i].vals) |-> desc[i].vals[j].value])]

\* An input of the parser with what it was made from: the description of
\* its options and, for an invalid input, the name of a last option whose
\* '=' is followed by the text of some values (each with a comma after it)
\* and an invalid end; or a case of the tests.
GoodInputs ==
    { [kind |-> "good", in |-> Render(desc), desc |-> desc] : desc \in Descs }
    \cup { [kind |-> "good", in |-> <<123>> \o Render(desc) \o <<125>>,
            desc |-> desc] : desc \in DescsOfSize(2) }

BadInputs ==
    { [kind |-> t.kind,
       in |-> (IF desc = << >> THEN << >> ELSE Render(desc) \o <<32>>)
              \o nm \o <<61>>
              \o Flatten([j \in 1..Len(vs) |-> vs[j].text \o <<44>>])
              \o t.text,
       desc |-> desc, comma |-> vs # << >>] :
        desc \in UNION { DescsOfSize(n) : n \in 0..(MaxOptTokens - 2) },
        nm \in OptionNames,
        vs \in { << >> } \cup { <<f>> : f \in {fv \in StringForms :
                                                  fv.text = fv.value} },
        t \in BadTails }

TestInputs ==
    { [kind |-> "test", in |-> t.in, want |-> t] : t \in TestCases }

(***************************************************************************)
(* The options parser applied to an input: the input is the stream, hist   *)
(* tells what it was made from, and ParseOptions is called once.           *)
(***************************************************************************)
OptionsInit ==
    \E i \in GoodInputs \cup BadInputs \cup TestInputs :
        /\ sd = BadStream(i.in)
        /\ hist = i
        /\ pos = 0
        /\ d = NoDecoder
        /\ pages = << >>
        /\ call = [op |-> "none", page |-> 0, blen |-> 0, lines |-> 0]
        /\ ret = [err |-> ErrNil, buf |-> << >>, page |-> 0]

ParseOptionsStep(res) ==
    /\ call' = [op |-> "ParseOptions", page |-> 0, blen |-> 0, lines |-> 0]
    /\ ret' = [err |-> res.err, buf |-> << >>, page |-> 0,
               opts |-> res.v,
               at |-> res.at, msg |-> res.msg]
    /\ UNCHANGED <<d, pos, pages, hist, sd>>

ParseOptionsAct ==
    /\ call.op = "none"
    /\ ParseOptionsStep(ParseOptions(sd.raw))

OptionsNext == ParseOptionsAct

OptionsSpec == OptionsInit /\ [][OptionsNext]_vars

(***************************************************************************)
(* Properties.  Page i of the heap is page i of the stream: NextPage       *)
(* parses a header only after the page before it is drained.               *)
(***************************************************************************)
\* the stream is a whole generated stream: a magic and complete pages
WellFormed == sd.valid /\ ~sd.cut

\* the stream ends before the end of the data of its page i
Truncated(i) == sd.valid /\ i \in 1..Len(sd.pts) /\ StreamLen < sd.de[i]

\* the reader at the current position
Reader == [pos |-> pos, n |-> d.n]

\* the drain NextPage makes of the current page: the reader after it and
\* its error
DrainOfCurrent ==
    IF d.curPage = 0 THEN [r |-> Reader, err |-> ErrNil]
    ELSE With(discard(pages[d.curPage], Reader, d.version), LAMBDA dis :
            [r |-> dis.r, err |-> dis.err])

\* the bytes of the lines of page i of the stream, in order
PageData(i) == Flatten(ExpLines(PageType(sd.pts[i])))

(* C1: on a well-formed stream of any version, NextPage called while page  *)
(* i is current and another page follows, with any number k of the lines   *)
(* of page i read, returns no error and the header of page i+1, leaves     *)
(* page i without unread lines and leaves the stream at the first data     *)
(* byte of page i+1, which in version 2 is not where a skip of             *)
(* (height - k) * bytesPerLine bytes would end.                            *)
C1_DrainOnAdvance ==
    [][(/\ call'.op = "NextPage"
        /\ WellFormed
        /\ d.curPage # 0
        /\ d.curPage < Len(sd.pts))
       => /\ ret'.err = ErrNil
          /\ ret'.page = d.curPage + 1
          /\ d'.curPage = d.curPage + 1
          /\ pages'[d.curPage + 1].Header
               = ExpHeader(sd.ver, PageType(sd.pts[d.curPage + 1]))
          /\ pages'[d.curPage + 1].linesRead = 0
          /\ pos' = sd.ds[d.curPage + 1]
          /\ UnreadLines(pages'[d.curPage]) = 0]_vars

\* NextPage has returned the second page of a version 2 stream after the
\* caller had read one of the three lines of the first
C1_Witness ==
    /\ call.op = "NextPage" /\ call.page = 1 /\ call.lines = 1
    /\ WellFormed /\ sd.ver = 2
    /\ pages # << >> /\ pages[1].Header.CUPSHeight = 3
    /\ ret.err = ErrNil /\ ret.page = 2

(* C2: NextPage called while the current page has unread lines and the     *)
(* stream ends before the end of that page's data returns                  *)
(* io.ErrUnexpectedEOF, whatever calls were made on the page before.       *)
C2_TruncatedDrain ==
    [][(/\ call'.op = "NextPage"
        /\ d.curPage # 0
        /\ Truncated(d.curPage)
        /\ UnreadLines(pages[d.curPage]) > 0)
       => ret'.err = ErrUnexpectedEOF]_vars

(* C3: NextPage returns io.EOF only if the stream ends where the parse of  *)
(* the header starts (after the drain of the current page), so that the    *)
(* call consumes no header byte; if the stream ends after at least one     *)
(* and before the last byte of the header, NextPage returns                *)
(* io.ErrUnexpectedEOF and no page.                                        *)
C3_HeaderEOF ==
    [][call'.op = "NextPage"
       => With(DrainOfCurrent, LAMBDA dr :
            /\ ret'.err = EOF
                 => dr.err = ErrNil /\ dr.r.pos = StreamLen /\ pos' = StreamLen
            /\ (/\ dr.err = ErrNil
                /\ dr.r.pos < StreamLen
                /\ StreamLen < dr.r.pos + HeaderLen(d.version))
                 => /\ ret'.err = ErrUnexpectedEOF
                    /\ ret'.page = 0
                    /\ pos' = StreamLen)]_vars

\* NextPage has returned io.ErrUnexpectedEOF on a version 3 stream that
\* ends in the extension of its first header
C3_Witness ==
    /\ call.op = "NextPage" /\ call.page = 0
    /\ sd.valid /\ sd.ver = 3 /\ StreamLen = 4 + 580
    /\ pos = StreamLen
    /\ ret.err = ErrUnexpectedEOF /\ ret.page = 0

C5_RepeatedLines ==
    [][(/\ call'.op = "ReadLine"
        /\ d.version = 2
        /\ call'.blen >= LineSize(pages[call'.page])
        /\ UnreadLines(pages[call'.page]) > 0
        /\ hist[call'.page].valid)
       => IF hist[call'.page].k < hist[call'.page].R
          THEN /\ ret'.err = ErrNil
               /\ Prefix(ret'.buf, LineSize(pages[call'.page]))
                    = hist[call'.page].line
               /\ pos' = pos
          ELSE \/ pos' > pos
               \/ pos = StreamLen /\ ret'.err = ErrUnexpectedEOF]_vars

\* the ReadLine after a line with control byte 1 has returned the line
\* again
C5_Witness ==
    /\ call.op = "ReadLine" /\ call.page = 1 /\ call.lines = 1
    /\ d.version = 2
    /\ hist # << >>
    /\ hist[1].valid /\ hist[1].R = 1 /\ hist[1].k = 1
    /\ ret.err = ErrNil
    /\ Prefix(ret.buf, 3) = <<11, 12, 13>>

(* C6: ReadLine with a buffer shorter than bytesPerLine returns            *)
(* ErrBufferTooSmall, reads nothing from the stream and changes neither    *)
(* the page (lines read, pending repeats, cached line) nor the buffer, so  *)
(* that the next ReadLine finds the state it would have found without the  *)
(* call.                                                                   *)
C6_BufferTooSmall ==
    [][(/\ call'.op = "ReadLine"
        /\ call'.blen < LineSize(pages[call'.page]))
       => /\ ret'.err = ErrBufferTooSmall
          /\ ret'.buf = CallerBuffer(call'.blen)
          /\ pos' = pos
          /\ d' = d
          /\ pages' = pages]_vars

\* ReadLine has returned ErrBufferTooSmall on a version 2 page with one
\* line read and one repeat pending
C6_Witness ==
    /\ call.op = "ReadLine" /\ call.blen = 2
    /\ d.version = 2 /\ d.curPage = 1 /\ call.page = 1
    /\ pages[1].linesRead = 1 /\ pages[1].lineRep = 1
    /\ ret.err = ErrBufferTooSmall

(* C7: ReadLine with a buffer of at least bytesPerLine bytes returns       *)
(* io.EOF only when the page has no unread lines at the call.              *)
C7_CleanEOFOnlyAtEnd ==
    [][(/\ call'.op = "ReadLine"
        /\ call'.blen >= LineSize(pages[call'.page])
        /\ ret'.err = EOF)
       => UnreadLines(pages[call'.page]) = 0]_vars

(* C8: ReadAll with a buffer of the page's size on a page with unread      *)
(* lines does not return io.EOF, and returns io.ErrUnexpectedEOF if the    *)
(* stream ends before the end of the page's data.                          *)
C8_ReadAllPromotes ==
    [][(/\ call'.op = "ReadAll"
        /\ call'.blen >= Size(pages[call'.page])
        /\ UnreadLines(pages[call'.page]) > 0)
       => /\ ret'.err # EOF
          /\ Truncated(call'.page) => ret'.err = ErrUnexpectedEOF]_vars

MagicTable ==
    { << <<82, 97, 83, 116>>, 1, BigEndian >>,
      << <<116, 83, 97, 82>>, 1, LittleEndian >>,
      << <<82, 97, 83, 50>>, 2, BigEndian >>,
      << <<50, 83, 97, 82>>, 2, LittleEndian >>,
      << <<82, 97, 83, 51>>, 3, BigEndian >>,
      << <<51, 83, 97, 82>>, 3, LittleEndian >> }

(* C10: parseMagic maps RaSt, tSaR, RaS2, 2SaR, RaS3 and 3SaR to versions  *)
(* 1, 1, 2, 2, 3, 3 with byte orders big, little, big, little, big,        *)
(* little; NewDecoder on a stream that starts with one of them returns a   *)
(* decoder of that version and byte order and leaves the stream after its  *)
(* 4th byte.                                                               *)
C10_Magic ==
    /\ \A m \in MagicTable :
          parseMagic(m[1]) = [version |-> m[2], bo |-> m[3], ok |-> TRUE]
    /\ (call.op = "NewDecoder"
        /\ \E m \in MagicTable : Prefix(StreamBytes(0, StreamLen), 4) = m[1])
       => \E m \in MagicTable :
             /\ Prefix(StreamBytes(0, StreamLen), 4) = m[1]
             /\ ret.err = ErrNil
             /\ d.made /\ d.version = m[2] /\ d.bo = m[3]
             /\ pos = 4 /\ d.n = 0

\* NewDecoder has returned a little-endian version 2 decoder on a stream
\* that holds more than the magic
C10_Witness ==
    /\ call.op = "NewDecoder"
    /\ StreamLen > 4 /\ StreamBytes(0, 4) = <<50, 83, 97, 82>>
    /\ ret.err = ErrNil
    /\ d.made /\ d.version = 2 /\ d.bo = LittleEndian
    /\ pos = 4

(* C11: NewDecoder on a stream of at least 4 bytes whose first 4 bytes are *)
(* none of the six magics fails with ErrUnknownVersion and returns no      *)
(* decoder; on a stream of fewer than 4 bytes it returns no decoder and    *)
(* the error of the read of the magic as it is (io.EOF for an empty        *)
(* stream, io.ErrUnexpectedEOF for 1 to 3 bytes), not ErrUnknownVersion.   *)
C11_UnknownFormat ==
    call.op = "NewDecoder" =>
        With(Prefix(StreamBytes(0, StreamLen), 4), LAMBDA pre :
            /\ (Len(pre) = 4 /\ \A m \in MagicTable : pre # m[1])
               => ret.err = ErrUnknownVersion /\ d = NoDecoder
            /\ Len(pre) = 0 => ret.err = EOF /\ d = NoDecoder
            /\ Len(pre) \in 1..3
               => ret.err = ErrUnexpectedEOF /\ d = NoDecoder)

\* NewDecoder has failed with io.ErrUnexpectedEOF on the 3-byte stream
\* "RaS"
C11_Witness ==
    /\ call.op = "NewDecoder"
    /\ ~sd.valid /\ sd.raw = <<82, 97, 83>>
    /\ ret.err = ErrUnexpectedEOF
    /\ ~d.made /\ pos = 3

(* C12: ReadAll fails with ErrBufferTooSmall exactly when its buffer is    *)
(* shorter than bytesPerLine x UnreadLines(), and then reads nothing; in   *)
(* particular a buffer of exactly that length, after k lines of the page   *)
(* were read, is accepted.                                                 *)
C12_ReadAllRemainder ==
    [][call'.op = "ReadAll"
       => /\ ret'.err = ErrBufferTooSmall
             <=> call'.blen < LineSize(pages[call'.page])
                              * UnreadLines(pages[call'.page])
          /\ ret'.err = ErrBufferTooSmall => pos' = pos]_vars

(* C13: on a page without unread lines every ReadLine with a buffer of at  *)
(* least bytesPerLine bytes and every ReadAll with a buffer of at least    *)
(* height x bytesPerLine bytes returns io.EOF and leaves the stream        *)
(* position, the decoder, every page and the buffer as they were, so that  *)
(* a repetition of the call meets the same state.                          *)
C13_EOFWhenRead ==
    [][(/\ \/ (call'.op = "ReadLine"
                /\ call'.blen >= LineSize(pages[call'.page]))
            \/ (call'.op = "ReadAll"
                /\ call'.blen >= Size(pages[call'.page]))
        /\ UnreadLines(pages[call'.page]) = 0)
       => /\ ret'.err = EOF
          /\ ret'.buf = CallerBuffer(call'.blen)
          /\ pos' = pos /\ d' = d /\ pages' = pages]_vars

\* ReadLine has returned io.EOF on a page of 3 lines that a ReadAll had
\* read to its end
C13_Witness ==
    /\ call.op = "ReadLine" /\ call.page = 1 /\ call.lines = 3
    /\ pages[1].Header.CUPSHeight = 3 /\ pages[1].linesRead = 3
    /\ sd.valid /\ pos = sd.de[1]
    /\ ret.err = EOF

\* the page and the header of the last call
CalledPage == pages[call.page]

CalledHeader == pages[call.page].Header

\* bit n of the byte v, bit 7 being the most significant
Bit(v, n) == (v \div (2 ^ n)) % 2

(* C14: ParseColors on a chunky, Black, 1-bit page returns no error and 8  *)
(* colors for every input byte, so 8 x len(input) colors in all: the       *)
(* colors of a byte are those of its bits from the most significant to     *)
(* the least significant, gray 255 for a bit 0 and gray 0 for a bit 1.     *)
C14_Black1Bit ==
    (/\ call.op = "ParseColors"
     /\ CalledHeader.CUPSColorOrder = ChunkyPixels
     /\ CalledHeader.CUPSColorSpace = ColorSpaceBlack
     /\ CalledHeader.CUPSBitsPerColor = 1)
    => /\ ret.err = ErrNil
       /\ Len(ret.colors) = 8 * Len(ret.buf)
       /\ \A k \in 1..Len(ret.buf) : \A j \in 0..7 :
             ret.colors[8 * (k - 1) + j + 1]
                 = [Y |-> IF Bit(ret.buf[k], 7 - j) = 0 THEN 255 ELSE 0]

\* ParseColors has parsed the bytes 0xA5, 0x00 of a 1-bit black page: 16
\* colors, black, white, black, white, white, black, white, black and 8
\* times white
C14_Witness ==
    /\ call.op = "ParseColors"
    /\ CalledHeader.CUPSColorOrder = ChunkyPixels
    /\ CalledHeader.CUPSColorSpace = ColorSpaceBlack
    /\ CalledHeader.CUPSBitsPerColor = 1
    /\ ret.buf = <<165, 0>>
    /\ ret.err = ErrNil
    /\ ret.colors = [i \in 1..16 |->
                        [Y |-> IF i \in {1, 3, 6, 8} THEN 0 ELSE 255]]

(* C15: ParseColors on a chunky, Black, 8-bit page returns no error and    *)
(* one gray for every input byte, in the order of the input, the gray of   *)
(* the stored byte v being 255 - v.                                        *)
C15_Black8Bit ==
    (/\ call.op = "ParseColors"
     /\ CalledHeader.CUPSColorOrder = ChunkyPixels
     /\ CalledHeader.CUPSColorSpace = ColorSpaceBlack
     /\ CalledHeader.CUPSBitsPerColor = 8)
    => /\ ret.err = ErrNil
       /\ Len(ret.colors) = Len(ret.buf)
       /\ \A k \in 1..Len(ret.buf) : ret.colors[k] = [Y |-> 255 - ret.buf[k]]

\* ParseColors has parsed the bytes 165, 0, 255 of an 8-bit black page:
\* the grays 90, 255, 0
C15_Witness ==
    /\ call.op = "ParseColors"
    /\ CalledHeader.CUPSColorOrder = ChunkyPixels
    /\ CalledHeader.CUPSColorSpace = ColorSpaceBlack
    /\ CalledHeader.CUPSBitsPerColor = 8
    /\ ret.buf = <<165, 0, 255>>
    /\ ret.err = ErrNil
    /\ ret.colors = << [Y |-> 90], [Y |-> 255], [Y |-> 0] >>

(* C16: ParseColors on a chunky, CMYK, 8-bit page returns, for an input    *)
(* whose length is a positive multiple of 4, no error and one color for    *)
(* every 4 bytes, the bytes being C, M, Y and K in this order (so          *)
(* [10,20,30,40] gives {C:10, M:20, Y:30, K:40}); for an input of length   *)
(* 0 or of a length that is no multiple of 4 it fails with                 *)
(* ErrInvalidFormat and returns no colors.                                 *)
C16_CMYK8Bit ==
    (/\ call.op = "ParseColors"
     /\ CalledHeader.CUPSColorOrder = ChunkyPixels
     /\ CalledHeader.CUPSColorSpace = ColorSpaceCMYK
     /\ CalledHeader.CUPSBitsPerColor = 8)
    => IF Len(ret.buf) > 0 /\ Len(ret.buf) % 4 = 0
       THEN /\ ret.err = ErrNil
            /\ Len(ret.colors) * 4 = Len(ret.buf)
            /\ \A k \in 1..Len(ret.colors) :
                  ret.colors[k] = [C |-> ret.buf[4 * k - 3],
                                   M |-> ret.buf[4 * k - 2],
                                   Y |-> ret.buf[4 * k - 1],
                                   K |-> ret.buf[4 * k]]
            /\ ret.buf = <<10, 20, 30, 40>>
               => ret.colors = << [C |-> 10, M |-> 20, Y |-> 30, K |-> 40] >>
       ELSE ret.err = ErrInvalidFormat /\ ret.colors = << >>

\* ParseColors has parsed the 8 bytes 10, 20, ..., 80 of an 8-bit CMYK
\* page: two colors
C16_Witness ==
    /\ call.op = "ParseColors"
    /\ CalledHeader.CUPSColorOrder = ChunkyPixels
    /\ CalledHeader.CUPSColorSpace = ColorSpaceCMYK
    /\ CalledHeader.CUPSBitsPerColor = 8
    /\ ret.buf = <<10, 20, 30, 40, 50, 60, 70, 80>>
    /\ ret.err = ErrNil
    /\ ret.colors = << [C |-> 10, M |-> 20, Y |-> 30, K |-> 40],
                       [C |-> 50, M |-> 60, Y |-> 70, K |-> 80] >>

\* the header is of a combination ParseColors supports
Supported(h) ==
    /\ h.CUPSColorOrder = ChunkyPixels
    /\ \/ h.CUPSColorSpace = ColorSpaceBlack /\ h.CUPSBitsPerColor \in {1, 8}
       \/ h.CUPSColorSpace = ColorSpaceCMYK /\ h.CUPSBitsPerColor = 8

(* C17: ParseColors fails with ErrUnsupported and returns no colors,       *)
(* whatever the input, on every page whose color order is not chunky,      *)
(* whose color space is neither Black nor CMYK, or whose bits per color    *)
(* are not 1 or 8 for Black and not 8 for CMYK.                            *)
C17_Unsupported ==
    (call.op = "ParseColors" /\ ~Supported(CalledHeader))
    => ret.err = ErrUnsupported /\ ret.colors = << >>

\* ParseColors has failed with ErrUnsupported on a 1-bit CMYK page, for an
\* input of one byte
C17_Witness ==
    /\ call.op = "ParseColors"
    /\ CalledHeader.CUPSColorOrder = ChunkyPixels
    /\ CalledHeader.CUPSColorSpace = ColorSpaceCMYK
    /\ CalledHeader.CUPSBitsPerColor = 1
    /\ Len(ret.buf) = 1
    /\ ret.err = ErrUnsupported /\ ret.colors = << >>

\* the page a call is made on, before the call, and its header
PageOfCall == pages[call'.page]

\* the page is a chunky 1-bit black page whose lines hold all its pixels
OneBitPage(p) ==
    /\ p.Header.CUPSColorOrder = ChunkyPixels
    /\ p.Header.CUPSColorSpace = ColorSpaceBlack
    /\ p.Header.CUPSBitsPerColor = 1
    /\ p.Header.CUPSWidth <= 8 * p.Header.CUPSBytesPerLine

(* C18: ReadLineColors never returns more colors than the page is wide,    *)
(* and ReadAllColors never returns more than width x n colors, n being     *)
(* the number of lines the call has read; on a 1-bit black page with       *)
(* width <= 8 x bytesPerLine a successful ReadLineColors returns exactly   *)
(* width colors and a successful ReadAllColors exactly width x n, whatever *)
(* the length of the scratch buffer: the colors of the bits that follow    *)
(* the last pixel of a line are dropped line by line.                      *)
C18_ColorsTruncated ==
    [][/\ call'.op = "ReadLineColors"
          => /\ Len(ret'.colors) <= PageOfCall.Header.CUPSWidth
             /\ (ret'.err = ErrNil /\ OneBitPage(PageOfCall))
                => Len(ret'.colors) = PageOfCall.Header.CUPSWidth
       /\ call'.op = "ReadAllColors"
          => /\ Len(ret'.colors)
                  <= PageOfCall.Header.CUPSWidth
                     * (pages'[call'.page].linesRead - PageOfCall.linesRead)
             /\ (ret'.err = ErrNil /\ OneBitPage(PageOfCall))
                => Len(ret'.colors)
                     = PageOfCall.Header.CUPSWidth
                       * (pages'[call'.page].linesRead - PageOfCall.linesRead)
      ]_vars

\* ReadAllColors has read the 2 lines of a 1-bit page of width 5, whose
\* bytes are 01011000 and 00100101, with a scratch buffer of 2 bytes: 10
\* colors, 5 a line
C18_Witness ==
    /\ call.op = "ReadAllColors" /\ call.page = 1 /\ call.lines = 0
    /\ call.blen = 2
    /\ pages[1].Header.CUPSBitsPerColor = 1 /\ pages[1].Header.CUPSWidth = 5
    /\ pages[1].Header.CUPSBytesPerLine = 1 /\ pages[1].linesRead = 2
    /\ ret.err = ErrNil
    /\ ret.colors = [i \in 1..10 |->
                        [Y |-> IF i \in {2, 4, 5, 8} THEN 0 ELSE 255]]

(* C19: when Image returns an image or ErrUnsupported, the page has no     *)
(* unread lines left; on a well-formed stream, for the current page, the   *)
(* stream then stands at the end of the page's data, and a NextPage that   *)
(* follows reads nothing of the page and returns the next page of the      *)
(* stream with its header, or io.EOF after the last page.                  *)
C19_ImageConsumes ==
    [][/\ (call'.op = "Image" /\ ret'.err \in {ErrNil, ErrUnsupported})
          => /\ UnreadLines(pages'[call'.page]) = 0
             /\ (WellFormed /\ call'.page = d.curPage)
                => pos' = sd.de[call'.page]
       /\ (/\ call'.op = "NextPage"
           /\ call.op = "Image" /\ call.page = d.curPage
           /\ ret.err \in {ErrNil, ErrUnsupported})
          => /\ DrainOfCurrent = [r |-> Reader, err |-> ErrNil]
             /\ WellFormed
                => IF d.curPage < Len(sd.pts)
                   THEN /\ ret'.err = ErrNil /\ ret'.page = d.curPage + 1
                        /\ pages'[d.curPage + 1].Header
                             = ExpHeader(sd.ver,
                                         PageType(sd.pts[d.curPage + 1]))
                   ELSE ret'.err = EOF /\ ret'.page = 0]_vars

\* Image has returned ErrUnsupported for the 1-bit CMYK page that is the
\* first of two pages: its line is read and the stream stands at the
\* header of the second page
C19_Witness ==
    /\ call.op = "Image" /\ call.page = 1 /\ call.lines = 0
    /\ WellFormed /\ sd.pts = <<"U", "A">>
    /\ ret.err = ErrUnsupported
    /\ UnreadLines(pages[1]) = 0
    /\ pos = sd.hs[2]

(* C20: no call changes the Header of a page NextPage has returned:        *)
(* ReadLine, ReadAll, ReadLineColors, ReadAllColors, Image and later       *)
(* NextPage calls leave every field of the Header of every earlier page    *)
(* as it was, and NextPage keeps every earlier page.                       *)
C20_HeaderStable ==
    [][/\ Len(pages') >= Len(pages)
       /\ \A i \in 1..Len(pages) : pages'[i].Header = pages[i].Header]_vars

\* NextPage has returned the second page of a well-formed stream after an
\* Image or a read of the whole first page: both pages have the headers
\* of the stream, which differ
C20_Witness ==
    /\ call.op = "NextPage" /\ call.page = 1 /\ ret.page = 2
    /\ call.lines = pages[1].Header.CUPSHeight
    /\ WellFormed /\ Len(pages) = 2
    /\ pages[1].Header = ExpHeader(sd.ver, PageType(sd.pts[1]))
    /\ pages[2].Header = ExpHeader(sd.ver, PageType(sd.pts[2]))
    /\ pages[1].Header # pages[2].Header

(* C24: a ReadLine that returns no error yields a line of exactly          *)
(* bytesPerLine bytes, and no page yields more than height lines: in       *)
(* version 2 the line assembled from the packets is bytesPerLine bytes     *)
(* long when the packet loop ends, also when the groups of the last packet *)
(* run past bytesPerLine, and the bytes of the caller's buffer that follow *)
(* the first bytesPerLine are left as they were.                           *)
C24_ExactLine ==
    [][(call'.op = "ReadLine" /\ ret'.err = ErrNil)
       => /\ d.version = 2
             => Len(pages'[call'.page].line) = LineSize(PageOfCall)
          /\ \A i \in (LineSize(PageOfCall) + 1)..call'.blen :
                ret'.buf[i] = CallerBuffer(call'.blen)[i]
          /\ pages'[call'.page].linesRead
               <= PageOfCall.Header.CUPSHeight]_vars

\* the last call was a ReadLine on page pi that failed to decode a line
FailedReadLine(pi) ==
    /\ call.op = "ReadLine"
    /\ call.page = pi
    /\ ret.err \notin {ErrNil, ErrBufferTooSmall, EOF}

(* C25: a decode failure is terminal for the page: the ReadLine or ReadAll *)
(* that follows a ReadLine which returned an error other than              *)
(* ErrBufferTooSmall on the same page does not return success, whatever    *)
(* its buffer: the line that failed is not decoded again and not           *)
(* delivered.                                                              *)
C25_FailureTerminal ==
    [][(/\ call'.op \in {"ReadLine", "ReadAll"}
        /\ FailedReadLine(call'.page))
       => ret'.err # ErrNil]_vars

(* C26: a ReadLine with a buffer of at least bytesPerLine bytes on a page  *)
(* with unread lines decreases UnreadLines() by exactly 1, whether the     *)
(* line is decoded or the decoding fails; a ReadLine that returns          *)
(* ErrBufferTooSmall or the clean io.EOF leaves UnreadLines() unchanged.   *)
C26_UnreadLinesStep ==
    [][call'.op = "ReadLine"
       => /\ (/\ call'.blen >= LineSize(PageOfCall)
              /\ UnreadLines(PageOfCall) > 0)
             => UnreadLines(pages'[call'.page]) = UnreadLines(PageOfCall) - 1
          /\ ret'.err \in {ErrBufferTooSmall, EOF}
             => UnreadLines(pages'[call'.page])
                  = UnreadLines(PageOfCall)]_vars

(* C27: in every state reached by any sequence of NextPage, ReadLine,      *)
(* ReadAll, ReadLineColors, ReadAllColors and Image, every page has        *)
(* 0 <= UnreadLines() = height - linesRead <= height and a pending-repeat  *)
(* counter between 0 and 255.                                              *)
C27_Ranges ==
    \A i \in 1..Len(pages) :
        /\ pages[i].linesRead >= 0
        /\ UnreadLines(pages[i])
             = pages[i].Header.CUPSHeight - pages[i].linesRead
        /\ UnreadLines(pages[i]) >= 0
        /\ UnreadLines(pages[i]) <= pages[i].Header.CUPSHeight
        /\ pages[i].lineRep \in 0..255

\* a color operation has decoded a line that is to be repeated, and Image
\* has read a page to its end
C27_Witness ==
    \/ /\ call.op = "ReadLineColors"
       /\ ret.err = ErrNil
       /\ CalledPage.lineRep = 1
       /\ UnreadLines(CalledPage) = 2
    \/ /\ call.op = "Image"
       /\ ret.err = ErrNil
       /\ CalledPage.Header.CUPSHeight > 0
       /\ UnreadLines(CalledPage) = 0

\* the plan of the lines of page i of the stream
PlanOf(i) == PageType(sd.pts[i]).plan

\* page i is as NextPage decoded it from the stream, and the stream is at
\* the control byte of the j-th coded line of the page with all the lines
\* coded before it read and no repeat pending
AtCodedLine(i, j) ==
    /\ sd.valid
    /\ i \in 1..Len(sd.pts)
    /\ j \in 1..Len(PlanOf(i))
    /\ pages[i].Header.CUPSBytesPerLine
         = HdrVal(PageType(sd.pts[i]), "CUPSBytesPerLine")
    /\ pages[i].Header.CUPSHeight = HdrVal(PageType(sd.pts[i]), "CUPSHeight")
    /\ pages[i].lineRep = 0
    /\ pages[i].linesRead
         = Len(Flatten([e \in 1..(j - 1) |-> LinesOfPlan(PlanOf(i)[e])]))
    /\ pos = sd.ds[i]
             + Len(Flatten([e \in 1..(j - 1) |-> PutLineV2(PlanOf(i)[e])]))

\* the groups a packet appends to the line and the bytes it takes in the
\* stream, for color groups of w bytes
PacketGroups(pk) ==
    IF pk.n \in 0..127 THEN [k \in 1..(pk.n + 1) |-> pk.g[1]]
    ELSE [k \in 1..(257 - pk.n) |-> pk.g[k]]

PacketSize(pk, w) ==
    IF pk.n \in 0..127 THEN 1 + w ELSE 1 + (257 - pk.n) * w

(* C28: a run-length packet whose count byte P is in 0..127 is followed by *)
(* one color group, which is appended to the line P + 1 times; a packet    *)
(* whose count byte P is in 128..255 is followed by 257 - P color groups,  *)
(* which are appended once each, in order; the packet takes 1 + W bytes    *)
(* of the stream in the first case and 1 + (257 - P) x W in the second, W  *)
(* being the width of a color group.  So a ReadLine of version 2 that      *)
(* starts at the control byte of a coded line that is whole in the stream  *)
(* returns no error, consumes the control byte and the bytes of the        *)
(* line's packets, assembles the groups of the packets in order and        *)
(* delivers the first bytesPerLine bytes of them.                          *)
C28_Packets ==
    [][(/\ call'.op = "ReadLine"
        /\ d.version = 2
        /\ call'.blen >= LineSize(PageOfCall))
       => \A j \in 1..Len(PlanOf(call'.page)) :
            (/\ AtCodedLine(call'.page, j)
             /\ StreamLen >= pos + Len(PutLineV2(PlanOf(call'.page)[j])))
            => With(PlanOf(call'.page)[j].pk, LAMBDA pk :
                 /\ \A k \in 1..Len(pk) : Len(pk[k].g) = Len(PacketGroups(pk[k]))
                                          \/ pk[k].n <= 127
                 /\ ret'.err = ErrNil
                 /\ pos' = pos + 1
                      + Len(Flatten([k \in 1..Len(pk) |->
                           [x \in 1..PacketSize(pk[k], Len(PageOfCall.color))
                              |-> 0]]))
                 /\ pages'[call'.page].line
                      = Flatten([k \in 1..Len(pk) |->
                                   Flatten(PacketGroups(pk[k]))])
                 /\ Prefix(ret'.buf, LineSize(PageOfCall))
                      = Prefix(pages'[call'.page].line,
                               LineSize(PageOfCall)))]_vars

\* ReadLine has decoded the line of 3 literal groups of a page of 2-byte
\* color groups, which follows a line of a repeated and a literal packet
C28_Witness ==
    /\ call.op = "ReadLine"
    /\ d.version = 2
    /\ ret.err = ErrNil
    /\ sd.pts[call.page] = "P"
    /\ call.lines = 2
    /\ pos = sd.ds[call.page] + 9 + 1 + (1 + 3 * 2)
    /\ Prefix(ret.buf, 6) = <<7, 8, 9, 10, 11, 12>>

(* C29: the line decoder is chosen by the version of the stream alone,     *)
(* whatever the compression field of the page's header.  In versions 1     *)
(* and 3 a ReadLine that passes its checks reads bytesPerLine bytes of the *)
(* stream as they are into the start of the caller's buffer (fewer if the  *)
(* stream ends), returns the error of that read and leaves the cached      *)
(* line and the repeat counter alone.  In version 2 it is the run-length   *)
(* decoder that runs: with a repeat pending it reads nothing and counts    *)
(* the repeat down, otherwise it takes the next byte of the stream for the *)
(* repeat count of the line and decodes packets, which for a coded line    *)
(* that is whole in the stream consumes the bytes of its coding.           *)
C29_DecoderByVersion ==
    [][(/\ call'.op = "ReadLine"
        /\ call'.blen >= LineSize(PageOfCall)
        /\ UnreadLines(PageOfCall) > 0)
       => IF d.version \in {1, 3}
          THEN With(ReadFull(pos, LineSize(PageOfCall)), LAMBDA rf :
                 /\ pos' = pos + rf.n
                 /\ ret'.err = rf.err
                 /\ ret'.buf = rf.data \o SubSeq(CallerBuffer(call'.blen),
                                                 rf.n + 1, call'.blen)
                 /\ pages'[call'.page].line = PageOfCall.line
                 /\ pages'[call'.page].lineRep = PageOfCall.lineRep)
          ELSE /\ d.version = 2
               /\ IF PageOfCall.lineRep > 0
                  THEN /\ pos' = pos
                       /\ pages'[call'.page].lineRep = PageOfCall.lineRep - 1
                  ELSE pos < StreamLen
                       => /\ pos' > pos
                          /\ pages'[call'.page].lineRep
                               = StreamBytes(pos, pos + 1)[1]
               /\ \A j \in 1..Len(PlanOf(call'.page)) :
                    (/\ AtCodedLine(call'.page, j)
                     /\ StreamLen
                          >= pos + Len(PutLineV2(PlanOf(call'.page)[j])))
                    => pos' = pos + Len(PutLineV2(PlanOf(call'.page)[j]))]_vars

\* in a version 3 stream, ReadLine has read the 6 bytes of the first line
\* of a page whose header sets the compression field as they are
C29_Witness ==
    /\ call.op = "ReadLine"
    /\ d.version = 3
    /\ ret.err = ErrNil
    /\ CalledPage.Header.CUPSCompression = 1
    /\ call.lines = 0
    /\ pos = sd.ds[call.page] + 6
    /\ ret.buf = <<1, 2, 3, 4, 5, 6>>

\* the least number of bytes that hold the given number of bits
BytesOfBits(bits) == IF bits % 8 = 0 THEN bits \div 8 ELSE bits \div 8 + 1

(* C30: the color group of a page NextPage returns is                      *)
(* ceil(bitsPerPixel / 8) bytes wide if the color order of its header is   *)
(* chunky and ceil(bitsPerColor / 8) bytes wide if it is banded or planar. *)
(* If the header NextPage parses has any other color order, NextPage       *)
(* returns ErrInvalidFormat and no page, and a NextPage that returns       *)
(* ErrInvalidFormat leaves the decoder's current page the one it was and   *)
(* adds no page.                                                           *)
C30_ColorGroupWidth ==
    [][call'.op = "NextPage"
       => /\ ret'.err = ErrNil
             => With(pages'[ret'.page], LAMBDA p :
                  /\ p.Header.CUPSColorOrder
                       \in {ChunkyPixels, BandedPixels, PlanarPixels}
                  /\ Len(p.color)
                       = IF p.Header.CUPSColorOrder = ChunkyPixels
                         THEN BytesOfBits(p.Header.CUPSBitsPerPixel)
                         ELSE BytesOfBits(p.Header.CUPSBitsPerColor))
          /\ \A k \in 1..Len(sd.pts) :
               (/\ WellFormed
                /\ DrainOfCurrent.err = ErrNil
                /\ DrainOfCurrent.r.pos = sd.hs[k]
                /\ HdrVal(PageType(sd.pts[k]), "CUPSColorOrder")
                     \notin {ChunkyPixels, BandedPixels, PlanarPixels})
               => ret'.err = ErrInvalidFormat
          /\ ret'.err = ErrInvalidFormat
             => /\ ret'.page = 0
                /\ d'.curPage = d.curPage
                /\ Len(pages') = Len(pages)]_vars

\* NextPage has failed on the header with color order 3 that follows a
\* banded page of 12-bit colors, which is still the current page
C30_Witness ==
    /\ call.op = "NextPage"
    /\ ret.err = ErrInvalidFormat
    /\ ret.page = 0
    /\ sd.pts = <<"N", "X">>
    /\ Len(pages) = 1
    /\ d.curPage = 1
    /\ pages[1].Header.CUPSColorOrder = BandedPixels
    /\ Len(pages[1].color) = 2
    /\ pos = sd.de[2]

\* the value form is a collection
IsCollection(f) == f \in CollectionForms

(* C21: ParseOptions returns no error and one Option for each option name  *)
(* of a valid input, in the order of the input; the Values of a name that  *)
(* is not followed by '=' are nil, and those of a name followed by '=' are *)
(* the values separated by commas, in the order of the input: a comma      *)
(* inside a quoted value does not split the value, and a space outside     *)
(* quotes ends the list of values.  The inputs of the tests of the parser  *)
(* that are valid give the options the tests expect.                       *)
C21_OptionsInOrder ==
    call.op = "ParseOptions"
    => /\ hist.kind = "good"
          => /\ ret.err = ErrNil
             /\ Len(ret.opts) = Len(hist.desc)
             /\ \A i \in 1..Len(hist.desc) :
                  /\ ret.opts[i].Name = hist.desc[i].name
                  /\ Len(ret.opts[i].Values) = Len(hist.desc[i].vals)
                  /\ \A j \in 1..Len(hist.desc[i].vals) :
                       \/ IsCollection(hist.desc[i].vals[j])
                       \/ ret.opts[i].Values[j] = hist.desc[i].vals[j].value
       /\ (hist.kind = "test" /\ hist.want.err = ErrNil)
          => /\ ret.err = ErrNil
             /\ ret.opts = hist.want.opts

\* ParseOptions has parsed (a="p,q" bc): the option a with the one value
\* (p,q), then the option bc without values
C21_Witness ==
    /\ call.op = "ParseOptions"
    /\ sd.raw = <<97, 61, 34, 112, 44, 113, 34, 32, 98, 99>>
    /\ ret.err = ErrNil
    /\ ret.opts = <<Option(<<97>>, << <<112, 44, 113>> >>),
                    Option(<<98, 99>>, << >>)>>

(* C22: ParseOptions returns the nil list of options with a SyntaxError,   *)
(* never the options parsed before the error, if the input ends after the  *)
(* '=' of an option or after the spaces that follow it, if a list of       *)
(* values ends with a comma, if a quote of a quoted value or the '{' of a  *)
(* collection is not closed, and if an octal escape in a string value has  *)
(* 1 or 2 digits.  The inputs of the tests of the parser that are invalid  *)
(* give the SyntaxError with the offset the tests expect.                  *)
C22_ErrorNoPartialList ==
    call.op = "ParseOptions"
    => /\ hist.kind \in {"novalue", "quote", "brace", "octal"}
          => /\ ret.err = ErrSyntax
             /\ ret.opts = << >>
       /\ (hist.kind = "test" /\ hist.want.err = ErrSyntax)
          => /\ ret.err = ErrSyntax
             /\ ret.at = hist.want.at
             /\ ret.opts = << >>

\* ParseOptions has failed on an octal escape of 2 digits in the value of
\* an option that follows a valid option
C22_Witness ==
    /\ call.op = "ParseOptions"
    /\ hist.kind = "octal"
    /\ hist.desc # << >>
    /\ ~hist.comma
    /\ sd.raw = <<97, 32, 98, 99, 61, 92, 50, 51>>
    /\ ret.err = ErrSyntax
    /\ ret.msg = "invalid octal number"
    /\ ret.opts = << >>

(* C23: a value that starts with '{' is returned as it is in the input, up *)
(* to and with the brace that closes it: braces nest, and a brace inside   *)
(* single or double quotes or after a backslash does not change the depth. *)
C23_CollectionVerbatim ==
    (call.op = "ParseOptions" /\ hist.kind = "good")
    => \A i \in 1..Len(hist.desc) : \A j \in 1..Len(hist.desc[i].vals) :
         IsCollection(hist.desc[i].vals[j])
         => /\ ret.err = ErrNil
            /\ i <= Len(ret.opts)
            /\ j <= Len(ret.opts[i].Values)
            /\ ret.opts[i].Values[j] = hist.desc[i].vals[j].text

\* ParseOptions has parsed (a={f="}" g='{'},{f=\}\{}): two collections
\* with braces in quotes and after backslashes
C23_Witness ==
    /\ call.op = "ParseOptions"
    /\ ret.err = ErrNil
    /\ sd.raw = <<97, 61>>
                \o <<123, 102, 61, 34, 125, 34, 32, 103, 61, 39, 123, 39, 125>>
                \o <<44>> \o <<123, 102, 61, 92, 125, 92, 123, 125>>
    /\ Len(ret.opts) = 1
    /\ ret.opts[1].Values
         = << <<123, 102, 61, 34, 125, 34, 32, 103, 61, 39, 123, 39, 125>>,
              <<123, 102, 61, 92, 125, 92, 123, 125>> >>

(* C31: once NextPage has returned a later page, a ReadLine or a ReadAll   *)
(* on a page returned before it reads no byte of the stream, leaves the    *)
(* page as it was and returns io.EOF (ErrBufferTooSmall if the buffer is   *)
(* shorter than the line or the page): no unread line is left on such a    *)
(* page, so only the page NextPage returned last moves the position of     *)
(* the stream.                                                             *)
C31_OnePageMovesStream ==
    [][(call'.op \in {"ReadLine", "ReadAll"})
       => /\ call'.page < Len(pages)
             => /\ pos' = pos
                /\ d'.n = d.n
                /\ pages' = pages
                /\ UnreadLines(PageOfCall) = 0
                /\ ret'.err
                     = IF call'.blen < (IF call'.op = "ReadLine"
                                        THEN LineSize(PageOfCall)
                                        ELSE Size(PageOfCall))
                       THEN ErrBufferTooSmall ELSE EOF
          /\ pos' # pos => call'.page = d.curPage /\ call'.page = Len(pages)
      ]_vars

\* ReadLine has returned io.EOF on the first page of a version 2 stream,
\* of which the caller had read no line, while the stream stands at the
\* first line of the second page
C31_Witness ==
    /\ call.op = "ReadLine" /\ call.page = 1 /\ call.lines = 3
    /\ WellFormed /\ sd.ver = 2 /\ sd.pts = <<"A", "B">>
    /\ Len(pages) = 2 /\ d.curPage = 2
    /\ pages[2].linesRead = 0
    /\ pos = sd.ds[2]
    /\ ret.err = EOF

(* C32: a NextPage that returns a page reads, after the drain of the       *)
(* current page, exactly 420 bytes of the stream in version 1 (4 strings   *)
(* of 64 bytes and 41 words of 4 bytes) and exactly 1796 bytes in versions *)
(* 2 and 3 (40 more words and 19 more strings); the first ReadLine of the  *)
(* page then reads from the byte that follows the header: a raw line is    *)
(* the bytesPerLine bytes from there, and in version 2 the byte there is   *)
(* the repeat count of the line.                                           *)
C32_HeaderLength ==
    [][/\ (call'.op = "NextPage" /\ ret'.err = ErrNil)
          => /\ pos' - DrainOfCurrent.r.pos
                  = IF d.version = 1 THEN 420 ELSE 1796
             /\ d'.n - DrainOfCurrent.r.n = pos' - DrainOfCurrent.r.pos
             /\ sd.valid => pos' = sd.ds[ret'.page]
       /\ (/\ call.op = "NextPage" /\ ret.err = ErrNil
           /\ call'.op = "ReadLine" /\ call'.page = ret.page
           /\ ret'.err = ErrNil)
          => IF d.version = 2
             THEN pages'[call'.page].lineRep = StreamBytes(pos, pos + 1)[1]
             ELSE /\ pos' = pos + LineSize(PageOfCall)
                  /\ Prefix(ret'.buf, LineSize(PageOfCall))
                       = StreamBytes(pos, pos + LineSize(PageOfCall))]_vars

\* NextPage has returned the second page of a version 2 stream after the
\* drain of two of the three lines of the first: it has read the 1796
\* bytes that follow the data of the first page
C32_Witness ==
    /\ call.op = "NextPage" /\ call.page = 1 /\ call.lines = 1
    /\ sd.valid /\ sd.ver = 2 /\ Len(sd.pts) = 2
    /\ ret.err = ErrNil /\ ret.page = 2
    /\ pos = sd.de[1] + 1796
    /\ pos = sd.ds[2]

\* the bytes of a slot that come before its first zero byte; none if the
\* slot holds no zero byte
BeforeFirstZero(s) ==
    IF \A i \in 1..Len(s) : s[i] # 0 THEN << >>
    ELSE [i \in 1..(CHOOSE n \in 0..(Len(s) - 1) :
                       s[n + 1] = 0 /\ \A j \in 1..n : s[j] # 0) |-> s[i]]

\* the 64 bytes of the stream that start at offset off of the header of
\* the first page
SlotAt(off) == StreamBytes(4 + off, 4 + off + 64)

(* C33: every string field of a header NextPage returns is decoded from    *)
(* its own 64 bytes of the stream, the slots following each other without  *)
(* gap (4 slots at the start of the header, 19 after the words of the      *)
(* extension in versions 2 and 3), and holds the bytes of its slot that    *)
(* come before the first zero byte, or no byte at all if the slot holds    *)
(* no zero byte.                                                           *)
C33_StringSlots ==
    (call.op = "NextPage" /\ ret.err = ErrNil /\ ret.page = 1)
    => /\ \A k \in 1..4 :
             pages[1].Header[V1Strings[k]]
                 = BeforeFirstZero(SlotAt(64 * (k - 1)))
       /\ d.version # 1
          => /\ \A i \in 1..16 :
                   pages[1].Header.CUPSString[i]
                       = BeforeFirstZero(SlotAt(580 + 64 * (i - 1)))
             /\ pages[1].Header.CUPSMarkerType
                  = BeforeFirstZero(SlotAt(580 + 64 * 16))
             /\ pages[1].Header.CUPSRenderingIntent
                  = BeforeFirstZero(SlotAt(580 + 64 * 17))
             /\ pages[1].Header.CUPSPageSizeName
                  = BeforeFirstZero(SlotAt(580 + 64 * 18))
       /\ pos = 4 + (IF d.version = 1 THEN 420 ELSE 580 + 64 * 19)
       /\ pages[1].Header.CUPSWidth = 2
       /\ pages[1].Header.CUPSBytesPerLine = 2

\* NextPage has returned a header whose MediaType slot holds 64 bytes that
\* are not zero and whose fields after it are those of the stream: the
\* field is empty
C33_Witness ==
    /\ call.op = "NextPage" /\ ret.err = ErrNil /\ ret.page = 1
    /\ SlotAt(128) = [i \in 1..64 |-> 65]
    /\ pages[1].Header.MediaType = << >>
    /\ pages[1].Header.MediaColor = <<67>>
    /\ pages[1].Header.OutputType = << >>
    /\ pages[1].Header.CUPSWidth = 2

\* the 4 bytes of the stream that hold the scalar field f of the header of
\* the first page
WireOf(f) == StreamBytes(4 + ScalarStart(f), 4 + ScalarStart(f) + 4)

\* the 4 bytes that stand for the word 1 in the byte order of the stream
WireOne == IF d.bo = BigEndian THEN <<0, 0, 0, 1>> ELSE <<1, 0, 0, 0>>

(* C34: in a header NextPage returns, each of Collate, Duplex,             *)
(* InsertSheet, ManualFeed, MirrorPrint, NegativePrint, OutputFaceUp,      *)
(* Separations, TraySwitch and Tumble is true exactly when the 4 bytes of  *)
(* its word are those of 1 in the byte order of the stream: it is false    *)
(* for 0 and for every other word, 2 and the word that is 1 in the other   *)
(* byte order included.                                                    *)
C34_BoolFields ==
    (call.op = "NextPage" /\ ret.err = ErrNil /\ ret.page = 1)
    => \A f \in {"Collate", "Duplex", "InsertSheet", "ManualFeed",
                 "MirrorPrint", "NegativePrint", "OutputFaceUp",
                 "Separations", "TraySwitch", "Tumble"} :
          /\ pages[1].Header[f] \in BOOLEAN
          /\ pages[1].Header[f] <=> (WireOf(f) = WireOne)

\* NextPage has returned the header of a little-endian stream in which the
\* word of Separations is 00 00 00 01, the bytes of 1 in big-endian
\* order: the field is false
C34_Witness ==
    /\ call.op = "NextPage" /\ ret.err = ErrNil /\ ret.page = 1
    /\ d.bo = LittleEndian
    /\ WireOf("Separations") = <<0, 0, 0, 1>>
    /\ pages[1].Header.Separations = FALSE
    /\ pages[1].Header.Tumble = FALSE

\* the number the 4 bytes w of the stream stand for in the byte order of
\* the stream, as 8 digits
WireValue(w) ==
    Zeros(4) \o (IF d.bo = BigEndian THEN w ELSE [i \in 1..4 |-> w[5 - i]])

(* C35: CUPSHeight and CUPSBytesPerLine hold, after decoding, the number   *)
(* their words stand for in the stream, for every word from 0 to 2^32 - 1  *)
(* (as uint32 and as int, without a change of sign from 2^31 on), and the  *)
(* size of the page is their product, not the product modulo 2^32.         *)
C35_FullRange ==
    call.op = "TotalSize"
    => /\ Zeros(4) \o ret.CUPSHeight = WireValue(StreamBytes(0, 4))
       /\ Zeros(4) \o ret.CUPSBytesPerLine = WireValue(StreamBytes(4, 8))
       /\ ret.intHeight
            = [neg |-> FALSE, mag |-> WireValue(StreamBytes(0, 4))]
       /\ ret.intBytesPerLine
            = [neg |-> FALSE, mag |-> WireValue(StreamBytes(4, 8))]
       /\ Zeros(4) \o ret.LineSize = WireValue(StreamBytes(4, 8))
       /\ Zeros(4) \o ret.TotalSize
            = TotalSizeWide([CUPSHeight |-> ret.CUPSHeight,
                             CUPSBytesPerLine |-> ret.CUPSBytesPerLine])

(* C36: when Image returns an image of a page of which no line was read    *)
(* before (a chunky page of 1-bit black, 8-bit black or 8-bit CMYK), the   *)
(* color At(x, y) of the image is, for every x below the width and every   *)
(* y below the height of the page, element y * width + x (counted from 0)  *)
(* of the colors ReadAllColors returns for the same page, read from the    *)
(* same place with a scratch buffer of bytesPerLine bytes.                 *)
C36_ImageIsColors ==
    [][(/\ call'.op = "Image" /\ ret'.err = ErrNil
        /\ PageOfCall.linesRead = 0)
       => With(ReadAllColors(PageOfCall, Reader,
                             Zeros(LineSize(PageOfCall)), d.version),
               LAMBDA rc :
            /\ rc.err = ErrNil
            /\ Len(rc.colors)
                 = PageOfCall.Header.CUPSWidth * PageOfCall.Header.CUPSHeight
            /\ \A y \in 0..(PageOfCall.Header.CUPSHeight - 1) :
               \A x \in 0..(PageOfCall.Header.CUPSWidth - 1) :
                  At(ret'.img, x, y)
                     = rc.colors[y * PageOfCall.Header.CUPSWidth + x + 1])
      ]_vars

\* Image has returned the Monochrome of the page of 2 lines of 10 pixels
\* whose bytes are 01011010 01000000 and 00100101 01111111: the pixels
\* (8, 0) and (9, 1), which are in the second byte of their lines, are
\* white and black
C36_Witness ==
    /\ call.op = "Image" /\ call.page = 1 /\ call.lines = 0
    /\ ret.err = ErrNil
    /\ ret.img.kind = "Monochrome" /\ ret.img.Rect = <<10, 2>>
    /\ ret.img.Stride = 2
    /\ ret.img.Pix = <<90, 64, 37, 127>>
    /\ At(ret.img, 8, 0) = [Y |-> 255]
    /\ At(ret.img, 9, 1) = [Y |-> 0]

\* the page of the ReadLine that is inside readV2Line
LoopPage == pages[call.page]

\* a ReadLine that went through the packet loop has returned a line of at
\* least bytesPerLine bytes and no error, or ErrUnexpectedEOF
LoopResult ==
    /\ call.op = "ReadLine"
    /\ "iter" \in DOMAIN call
    /\ \/ /\ ret.err = ErrNil
          /\ Len(LoopPage.line) >= LineSize(LoopPage)
          /\ Prefix(ret.buf, LineSize(LoopPage))
               = Prefix(LoopPage.line, LineSize(LoopPage))
       \/ ret.err = ErrUnexpectedEOF

(* C37: a ReadLine in run-length mode terminates, whatever the stream and  *)
(* the header, a color group 0 bytes wide and a line of 0 bytes included.  *)
(* Every iteration of the packet loop moves the stream forward by at least *)
(* one byte and never past its end, but for the iteration that finds the   *)
(* stream at its end, which returns ErrUnexpectedEOF; so the iterations    *)
(* made are never more than the bytes of the page's data read after the    *)
(* repeat byte, and these are never more than the stream has.  The step    *)
(* that ends the call leaves a line of at least bytesPerLine bytes, copied *)
(* to the buffer, and no error, or ErrUnexpectedEOF.                       *)
C37_PacketLoopEnds ==
    [][/\ (call.op = "readV2Line")
          => /\ (Len(LoopPage.line) < LineSize(LoopPage))
                => /\ call'.iter = call.iter + 1
                   /\ \/ pos' >= pos + 1
                      \/ /\ pos = StreamLen
                         /\ call'.op = "ReadLine"
                         /\ ret'.err = ErrUnexpectedEOF
             /\ call'.op # "readV2Line" => LoopResult'
       /\ (call'.op = "readV2Line")
          => /\ sd.ds[call'.page] + 1 + call'.iter <= pos'
             /\ pos' <= StreamLen]_vars

\* on a page whose color group is 0 bytes wide and whose line has 3 bytes,
\* a ReadLine has read every byte of the data after the repeat byte as a
\* count byte, 5 iterations, and returned ErrUnexpectedEOF from the 6th,
\* at the end of the stream
C37_Witness ==
    /\ LoopResult
    /\ sd.pts = <<"E">>
    /\ ~sd.cut
    /\ Len(LoopPage.color) = 0
    /\ LineSize(LoopPage) = 3
    /\ LoopPage.line = << >>
    /\ call.iter = 6
    /\ pos = StreamLen
    /\ ret.err = ErrUnexpectedEOF

(* C38: ReadLine writes only the first bytesPerLine bytes of the caller's  *)
(* buffer: whatever it returns, in raw mode and in run-length mode, for a  *)
(* line decoded from the stream and for a replayed line, the buffer keeps  *)
(* its length and every byte that follows the first bytesPerLine is the    *)
(* byte the caller passed.                                                 *)
C38_BufferTail ==
    [][call'.op = "ReadLine"
       => /\ Len(ret'.buf) = call'.blen
          /\ SubSeq(ret'.buf, LineSize(PageOfCall) + 1, call'.blen)
               = SubSeq(CallerBuffer(call'.blen), LineSize(PageOfCall) + 1,
                        call'.blen)]_vars

(* C39: the result of ReadLineColors does not depend on the scratch        *)
(* buffer: on a whole stream, when ReadLineColors with a buffer of exactly *)
(* bytesPerLine zero bytes returns colors and no error (the page is        *)
(* supported, the line well formed), the same call with any buffer of at   *)
(* least bytesPerLine bytes, whatever its length and the bytes in it,      *)
(* returns the same colors and no error.                                   *)
C39_ScratchFree ==
    [][(/\ call'.op = "ReadLineColors"
        /\ WellFormed
        /\ call'.blen >= LineSize(PageOfCall))
       => With(ReadLineColors(PageOfCall, Reader,
                              Zeros(LineSize(PageOfCall)), d.version),
               LAMBDA exact :
                   exact.err = ErrNil
                   => /\ ret'.err = ErrNil
                      /\ ret'.colors = exact.colors)]_vars

====
